---- MODULE Spec2Model ----
(***************************************************************************)
(* A model of the nlnet repository pipeline:                               *)
(*   - utils/initial_data_preparation.py : URL classification, flagging    *)
(*   - src/github_repo_request_local.py  : the resumable clone driver      *)
(*                                                                         *)
(* Strings are modelled as sequences of chunks.  A chunk is either one     *)
(* punctuation character ("/", ":", ".", "?", "#", "+", " ") or a word of  *)
(* letters and digits that no operation of the code ever splits.  The      *)
(* string a sequence stands for is the concatenation of its chunks, so     *)
(* <<"my", "gitlab", ".", "com">> is "mygitlab.com".                       *)
(***************************************************************************)
EXTENDS Integers, Sequences, FiniteSets, TLC

VARIABLES
    \* --- extract_url applied to one URL and to its own result
    url,            \* the input of extract_url
    results,        \* the results of the successive applications
    \* --- the preparation pipeline (initial_data_preparation.py __main__)
    tbl,            \* the DataFrame df
    ppc,            \* position in the pipeline
    \* --- the clone driver (github_repo_request_local.py __main__)
    inputFile,      \* data/original_massive_df.csv: NoFile or a table
    remote,         \* the remote repositories: what a clone of each URL holds
    snapshot,       \* the progress snapshot (updated CSV): NoFile or a table
    dirs,           \* the clone directories that exist on disk
    df,             \* the in-memory DataFrame of the running process
    index,          \* the row the loop is at
    pc,             \* position of the driver process
    processed_count,
    clone_dir,      \* the loop's clone_dir variable (the last one computed)
    keep_clones,    \* args.keep_clones of the running process
    runs,           \* number of runs started so far
    loaded,         \* history: the snapshot this run was started from
    cloned,         \* history: rows for which git clone was invoked this run
    unsaved,        \* history: rows processed since the last snapshot write
    partitions,     \* the CSV files in source_code_hosting_platform_dfs
    \* --- the GitHub API client (github_repo_requests.py main)
    github_df,      \* the testfilecount column of github_df
    github_csv,     \* the testfilecount column of data/github_df.csv
    row_index,      \* the row main's loop is at
    apc,            \* position of the API client
    attempt_num,    \* make_github_request's attempt_num
    requests,       \* history: session.get calls of the current top-level call
    sleeps,         \* history: time.sleep arguments of the current top-level call
    page,           \* get_test_file_count's page
    test_files,     \* get_test_file_count's len(test_files)
    response,       \* what the last call of make_github_request returned
    \* --- the metrics collector (DS/metrics_extraction.py)
    disk,           \* the files on disk: the content under each file name
    file_paths,     \* the argument of process_files_parallel
    par_results,    \* what process_files_parallel returned
    mpc,            \* position of the caller of process_files_parallel
    hash_lru,       \* the lru_cache of _get_file_hash: argument -> hash
    metrics_cache,  \* self._metrics_cache: hash -> result
    returned,       \* the last call of collector.analyse_test_file
    \* --- text files read and written line by line
    tsv_lines,      \* the lines of the TSV file initial_data_preparation reads
    list_file,      \* the lines of data/test_files_list.txt on disk
    list_buffer,    \* the lines written to the open file and not yet on disk
    written,        \* history: the blocks the writer was given, in order
    read_repos,     \* what read_test_file_paths returned
    read_data,      \* the rows convert_test_file_list_to_dataframe returned
    lpc             \* the readers of list_file that have run

urlVars  == <<url, results>>
prepVars == <<tbl, ppc, partitions>>
drvVars  == <<inputFile, remote, snapshot, dirs, df, index, pc, processed_count,
              clone_dir, keep_clones, runs, loaded, cloned, unsaved>>
reqVars  == <<github_df, github_csv, row_index, apc, attempt_num, requests, sleeps,
              page, test_files, response>>
metVars  == <<disk, file_paths, par_results, mpc, hash_lru, metrics_cache,
              returned>>
txtVars  == <<tsv_lines, list_file, list_buffer, written, read_repos, read_data,
              lpc>>
vars     == <<url, results, tbl, ppc, inputFile, remote, snapshot, dirs, df,
              index, pc, processed_count, clone_dir, keep_clones, runs, loaded,
              cloned, unsaved, partitions, github_df, github_csv, row_index,
              apc,
              attempt_num, requests, sleeps, page, test_files, response,
              disk, file_paths, par_results, mpc, hash_lru, metrics_cache,
              returned, tsv_lines, list_file, list_buffer, written, read_repos,
              read_data, lpc>>

(***************************************************************************)
(* Bounds of the model.                                                    *)
(***************************************************************************)
MaxSegs == 3        \* path segments of a generated URL
MaxRows == 2        \* rows of a table fed to the preparation pipeline
MaxDrvRows == 2     \* rows of a table of the clone driver run repeatedly
MaxBatchRows == 11  \* rows of a table of the clone driver run once
MaxStepRows == 3    \* rows of a table given to one flagging step
MaxMixRows == 3     \* rows in any order at the head of a table to partition
MaxRuns == 2        \* runs of the clone driver on one table

(***************************************************************************)
(* Values.                                                                 *)
(***************************************************************************)
\* Python None / pandas NaN in a column of strings
None == <<"<None>">>
\* pandas NaN / pd.NA in a column of scalars (projectref, clone_status,
\* last_commit_hash): what read_csv gives for an empty cell
NaN == "NaN"
\* Python None in a column of scalars
PyNone == "None"
\* values of a URL cell that are not strings: Python None above, an integer,
\* a float (the NaN pandas gives an empty cell) and a boolean
IntValue == <<"<123>">>
FloatNaN == <<"<nan>">>
BoolTrue == <<"<True>">>
NonStrings == {None, IntValue, FloatNaN, BoolTrue}
\* a CSV file on disk: absent, or holding the rows of a table
NoFile == [exists |-> FALSE, rows |-> <<>>]
File(t) == [exists |-> TRUE, rows |-> t]
\* the loop's clone_dir before the first row that assigns it
NoDir == <<>>

(***************************************************************************)
(* Python str operations on chunk sequences.                               *)
(***************************************************************************)
\* str.find(c) + 1 for a one-character c: 0 when c does not occur
Find(s, c) ==
    IF \E i \in 1..Len(s) : s[i] = c
    THEN CHOOSE i \in 1..Len(s) : s[i] = c /\ \A j \in 1..(i - 1) : s[j] # c
    ELSE 0

\* s[i:] with a 1-based i
From(s, i) == SubSeq(s, i, Len(s))

\* str.split(c): "" splits into [""]
RECURSIVE Split(_, _)
Split(s, c) ==
    LET i == Find(s, c)
    IN IF i = 0 THEN <<s>>
       ELSE <<SubSeq(s, 1, i - 1)>> \o Split(From(s, i + 1), c)

\* c.join(parts)
RECURSIVE Join(_, _)
Join(parts, c) ==
    IF parts = <<>> THEN <<>>
    ELSE IF Len(parts) = 1 THEN parts[1]
    ELSE parts[1] \o <<c>> \o Join(Tail(parts), c)

\* str.lstrip(c), str.rstrip(c), str.strip(c) for a one-character c
RECURSIVE LStrip(_, _)
LStrip(s, c) == IF s # <<>> /\ s[1] = c THEN LStrip(Tail(s), c) ELSE s

RECURSIVE RStrip(_, _)
RStrip(s, c) ==
    IF s # <<>> /\ s[Len(s)] = c THEN RStrip(SubSeq(s, 1, Len(s) - 1), c) ELSE s

Strip(s, c) == LStrip(RStrip(s, c), c)

\* t in s (substring)
Contains(s, t) ==
    \E i \in 1..(Len(s) - Len(t) + 1) : SubSeq(s, i, i + Len(t) - 1) = t

\* str.lower(): the one chunk with capitals the model generates
Lower(s) == [i \in 1..Len(s) |-> IF s[i] = "GitLab" THEN "gitlab" ELSE s[i]]

(***************************************************************************)
(* urllib.parse.urlparse, as far as the code reads its result: scheme,     *)
(* netloc, hostname and path.                                              *)
(***************************************************************************)
\* the characters that end a scheme's run of scheme_chars
NotSchemeChar == {"/", ":", "?", "#", " ", "@", "_", "[", "]"}

\* first position of any of "/?#" at or after position i, Len+1 if none
RECURSIVE NetlocEnd(_, _)
NetlocEnd(s, i) ==
    IF i > Len(s) THEN i
    ELSE IF s[i] \in {"/", "?", "#"} THEN i
    ELSE NetlocEnd(s, i + 1)

\* text before the first occurrence of c (all of s when c does not occur)
Before(s, c) == IF Find(s, c) = 0 THEN s ELSE SubSeq(s, 1, Find(s, c) - 1)

urlparse(s) ==
    LET colon == Find(s, ":")
        hasScheme == /\ colon > 1
                     /\ \A j \in 1..(colon - 1) : s[j] \notin NotSchemeChar
                     /\ s[1] \notin {"+", ".", "-"}
        scheme == IF hasScheme THEN Lower(SubSeq(s, 1, colon - 1)) ELSE <<>>
        rest == IF hasScheme THEN From(s, colon + 1) ELSE s
        hasNetloc == Len(rest) >= 2 /\ rest[1] = "/" /\ rest[2] = "/"
        delim == NetlocEnd(rest, 3)
        netloc == IF hasNetloc THEN SubSeq(rest, 3, delim - 1) ELSE <<>>
        rest2 == IF hasNetloc THEN From(rest, delim) ELSE rest
        path == Before(Before(rest2, "#"), "?")
        \* hostname: after the last "@", before the port's ":", lower-cased
        hostinfo == IF Find(netloc, "@") = 0 THEN netloc
                    ELSE From(netloc, Find(netloc, "@") + 1)
        host == Lower(Before(hostinfo, ":"))
        \* _decode_args calls x.decode on a truthy argument that is not a str;
        \* urlsplit rejects a netloc with "[" and no "]" or "]" and no "["
        error == IF s \in NonStrings \ {None} THEN "AttributeError"
                 ELSE IF hasNetloc /\ ((Find(netloc, "[") # 0) # (Find(netloc, "]") # 0))
                 THEN "ValueError"
                 ELSE "none"
    IN [scheme |-> scheme, netloc |-> netloc, path |-> path,
        hostname |-> IF host = <<>> THEN None ELSE host,
        error |-> error]

(***************************************************************************)
(* get_base_repo_url.extract_url                                           *)
(***************************************************************************)
direct_path_platforms ==
    { <<"gitlab", ".", "com">>,
      <<"gitlab", ".", "torproject", ".", "org">>,
      <<"codeberg", ".", "org">>,
      <<"framagit", ".", "org">>,
      <<"hydrillabugs", ".", "koszko", ".", "org">>,
      <<"git", ".", "replicant", ".", "us">>,
      <<"gerrit", ".", "osmocom", ".", "org">>,
      <<"git", ".", "taler", ".", "net">> }

\* any(host in parsed_url.netloc for host in direct_path_platforms)
IsDirectPath(netloc) == \E host \in direct_path_platforms : Contains(netloc, host)

\* f"{scheme}://{netloc}/{base_path}"
FormatUrl(scheme, netloc, base_path) ==
    scheme \o <<":", "/", "/">> \o netloc \o <<"/">> \o base_path

\* ".git" at the end of a name
EndsWithGit(s) == Len(s) >= 2 /\ SubSeq(s, Len(s) - 1, Len(s)) = <<".", "git">>

StripGit(s) == IF EndsWithGit(s) THEN SubSeq(s, 1, Len(s) - 2) ELSE s

\* extract_url as it would be if it removed a trailing ".git" from the base path
extract_url_strips_git(u) ==
    IF u = None \/ u = <<>> THEN [url |-> None, flag |-> TRUE]
    ELSE LET parsed_url == urlparse(u)
             path == Strip(parsed_url.path, "/")
             parts == Split(path, "/")
         IN IF IsDirectPath(parsed_url.netloc)
            THEN [url |-> FormatUrl(parsed_url.scheme, parsed_url.netloc,
                                    StripGit(Join(parts, "/"))),
                  flag |-> FALSE]
            ELSE IF Len(parts) < 2
            THEN [url |-> None, flag |-> TRUE]
            ELSE [url |-> FormatUrl(parsed_url.scheme, parsed_url.netloc,
                                    StripGit(Join(SubSeq(parts, 1, 2), "/"))),
                  flag |-> FALSE]

\* extract_url as it would be if the len(parts) < 2 test came before the
\* direct-path test
extract_url_len_first(u) ==
    IF u = None \/ u = <<>> THEN [url |-> None, flag |-> TRUE]
    ELSE LET parsed_url == urlparse(u)
             path == Strip(parsed_url.path, "/")
             parts == Split(path, "/")
         IN IF Len(parts) < 2
            THEN [url |-> None, flag |-> TRUE]
            ELSE IF IsDirectPath(parsed_url.netloc)
            THEN [url |-> FormatUrl(parsed_url.scheme, parsed_url.netloc,
                                    Join(parts, "/")),
                  flag |-> FALSE]
            ELSE [url |-> FormatUrl(parsed_url.scheme, parsed_url.netloc,
                                    Join(SubSeq(parts, 1, 2), "/")),
                  flag |-> FALSE]

\* the exception extract_url(u) raises, "none" when it returns
extract_url_error(u) == IF u = None \/ u = <<>> THEN "none" ELSE urlparse(u).error

extract_url(u) ==
    IF u = None \/ u = <<>> THEN [url |-> None, flag |-> TRUE]
    ELSE LET parsed_url == urlparse(u)
             path == Strip(parsed_url.path, "/")
             parts == Split(path, "/")
         IN IF IsDirectPath(parsed_url.netloc)
            THEN [url |-> FormatUrl(parsed_url.scheme, parsed_url.netloc,
                                    Join(parts, "/")),
                  flag |-> FALSE]
            ELSE IF Len(parts) < 2
            THEN [url |-> None, flag |-> TRUE]
            ELSE [url |-> FormatUrl(parsed_url.scheme, parsed_url.netloc,
                                    Join(SubSeq(parts, 1, 2), "/")),
                  flag |-> FALSE]

(***************************************************************************)
(* extract_and_flag_domains.get_domain and                                 *)
(* filter_out_incomplete_urls.is_complete_url                              *)
(***************************************************************************)
\* the exception get_domain(u) raises, "none" when it returns
get_domain_error(u) == urlparse(u).error

get_domain(u) ==
    LET parsed_url == urlparse(u)
    IN IF parsed_url.scheme \in {<<"http">>, <<"https">>, <<"git">>}
       THEN parsed_url.hostname
       ELSE None

\* is_complete_url as it would be without rstrip("/")
is_complete_url_no_rstrip(u) ==
    IF u \in NonStrings THEN FALSE
    ELSE Len(Split(u, "/")) >= 5

is_complete_url(u) ==
    IF u \in NonStrings THEN FALSE
    ELSE Len(Split(RStrip(u, "/"), "/")) >= 5

(***************************************************************************)
(* The URLs the model feeds to the classifier: scheme, host, a path of up  *)
(* to MaxSegs segments (an empty segment gives "//" or a trailing "/"),    *)
(* and an optional query or fragment; plus None and the empty string.      *)
(***************************************************************************)
Schemes == { <<"https", ":", "/", "/">>, <<"git", ":", "/", "/">>,
             <<"ftp", ":", "/", "/">>, <<>> }

Hosts == { <<"github", ".", "com">>, <<"gitlab", ".", "com">>,
           <<"[", "github", ".", "com">>,
           <<"my", "gitlab", ".", "com">>, <<"GitLab", ".", "com">>,
           <<"git", ".", "taler", ".", "net">>, <<>> }

Segments == { <<>>, <<"a">>, <<"b">>, <<"b", ".", "git">> }

Tails == { <<>>, <<"?", "q">>, <<"#", "f">> }

RECURSIVE PathOf(_, _)
PathOf(segs, i) ==
    IF i > Len(segs) THEN <<>> ELSE <<"/">> \o segs[i] \o PathOf(segs, i + 1)

Paths == { PathOf(segs, 1) : segs \in UNION { [1..k -> Segments] : k \in 0..MaxSegs } }

UrlInputs ==
    {None, <<>>} \cup
    { s \o h \o p \o t : s \in Schemes, h \in Hosts, p \in Paths, t \in Tails }

(***************************************************************************)
(* Idle values of the parts a specification does not exercise.             *)
(***************************************************************************)
UrlIdle == url = None /\ results = <<>>

PrepIdle == tbl = <<>> /\ ppc = "idle" /\ partitions = {}

DrvIdle ==
    /\ inputFile = NoFile /\ remote = <<>> /\ snapshot = NoFile /\ dirs = {}
    /\ df = <<>> /\ index = 0 /\ pc = "idle" /\ processed_count = 0
    /\ clone_dir = NoDir /\ keep_clones = FALSE /\ runs = 0
    /\ loaded = NoFile /\ cloned = {} /\ unsaved = 0

NoResponse == [status_code |-> 0, json |-> "None", items |-> 0, next |-> FALSE]

ReqIdle ==
    /\ github_df = <<>> /\ github_csv = <<>> /\ row_index = 0 /\ apc = "idle"
    /\ attempt_num = 0 /\ requests = 0 /\ sleeps = <<>> /\ page = 0
    /\ test_files = 0 /\ response = NoResponse

NoCall == [path |-> <<>>, raised |-> "none", result |-> <<>>]

MetIdle ==
    /\ disk = <<>> /\ file_paths = <<>> /\ par_results = <<>> /\ mpc = "idle"
    /\ hash_lru = <<>> /\ metrics_cache = <<>> /\ returned = NoCall

TxtIdle ==
    /\ tsv_lines = <<>> /\ list_file = <<>> /\ list_buffer = <<>> /\ written = <<>>
    /\ read_repos = <<>> /\ read_data = <<>> /\ lpc = {}

(***************************************************************************)
(* SpecUrl: extract_url applied to a URL, then to its own result.          *)
(***************************************************************************)
InitUrl == url \in UrlInputs /\ results = <<>> /\ PrepIdle /\ DrvIdle /\ ReqIdle /\ MetIdle /\ TxtIdle

\* result.apply(extract_url) on the input
\* the outcome of extract_url(u): the exception raised ("none" when it
\* returns), and the pair returned (no pair when it raises)
Outcome(u) ==
    IF extract_url_error(u) # "none"
    THEN [raised |-> extract_url_error(u), url |-> None, flag |-> TRUE]
    ELSE [raised |-> "none", url |-> extract_url(u).url, flag |-> extract_url(u).flag]

ExtractUrl ==
    /\ results = <<>>
    /\ results' = <<Outcome(url)>>
    /\ UNCHANGED <<url, prepVars, drvVars, reqVars, metVars, txtVars>>

\* the result re-submitted as input
ResubmitUrl ==
    /\ Len(results) = 1 /\ results[1].raised = "none"
    /\ results' = Append(results, Outcome(results[1].url))
    /\ UNCHANGED <<url, prepVars, drvVars, reqVars, metVars, txtVars>>

NextUrl == ExtractUrl \/ ResubmitUrl

SpecUrl == InitUrl /\ [][NextUrl]_vars

(***************************************************************************)
(* Claims about extract_url (checked under SpecUrl).                       *)
(***************************************************************************)
\* the path of u as extract_url cuts it: slashes stripped, split on "/"
PathParts(u) == Split(Strip(urlparse(u).path, "/"), "/")

\* the segments of a result's base path, the text after scheme://netloc/
ResultParts(u, r) ==
    Split(From(r, Len(urlparse(u).scheme) + Len(urlparse(u).netloc) + 5), "/")

\* drops the empty segments of a list of segments
RECURSIVE NonEmpty(_)
NonEmpty(parts) ==
    IF parts = <<>> THEN <<>>
    ELSE IF parts[1] = <<>> THEN NonEmpty(Tail(parts))
    ELSE <<parts[1]>> \o NonEmpty(Tail(parts))

\* the hosts the specification lists as mandating ".git"
hosts_with_mandatory_git_suffix ==
    { <<"git", ".", "savannah", ".", "gnu", ".", "org">>,
      <<"git", ".", "taler", ".", "net">>,
      <<"git", ".", "torproject", ".", "org">> }

Extracted == Len(results) >= 1 /\ results[1].raised = "none"

\* C5: for every complete, scheme-supported URL u, extract_url applied to its
\* own result returns that result unchanged.
C5_Idempotent ==
    (Len(results) = 2 /\ is_complete_url(url) /\ get_domain(url) # None)
        => results[2].url = results[1].url

C7_DirectPathExactlyListedHosts ==
    (Extracted /\ results[1].url # None)
        => IF urlparse(url).hostname \in direct_path_platforms
           THEN ResultParts(url, results[1].url) = PathParts(url)
           ELSE Len(ResultParts(url, results[1].url)) = 2

Punct == {"/", ":", ".", "?", "#", "+", " ", "@", "-", "[", "]"}

\* sanitise_directory_name: re.sub(r"[^\w-]", "_", name)
sanitise_directory_name(name) ==
    [i \in 1..Len(name) |-> IF name[i] \in Punct \ {"-"} THEN "_" ELSE name[i]]

\* df["repourl"].str.lstrip("+").str.rstrip("/").str.strip()
StripUrl(s) == Strip(RStrip(LStrip(s, "+"), "/"), " ")

\* df["repourl"].str.replace(r"^http\b", "https", regex=True)
HttpToHttps(s) ==
    IF s # <<>> /\ s[1] = "http" /\ (Len(s) = 1 \/ s[2] \in Punct)
    THEN <<"https">> \o Tail(s)
    ELSE s

\* adds (or overwrites) columns of a row
WithColumns(row, cols) == cols @@ row

\* "repourl" in df.columns; a table without rows has the columns it was built with
HasUrlColumn(t) == \A i \in 1..Len(t) : "repourl" \in DOMAIN t[i]

\* the position a step that raises leaves the program in
Raised(step, error) == step \o " raises " \o error

\* the exception Series.apply raises: that of the first row whose call raises
RECURSIVE FirstError(_, _)
FirstError(errors, i) ==
    IF i > Len(errors) THEN "none"
    ELSE IF errors[i] # "none" THEN errors[i]
    ELSE FirstError(errors, i + 1)

\* the columns that hold URLs or parts of URLs
UrlColumns == {"repourl", "repodomain", "base_repo_url"}

\* two rows are the same to df.duplicated: equal cell by cell, all missing
\* values (None, NaN) being one value
SameRow(a, b) ==
    /\ DOMAIN a = DOMAIN b
    /\ \A c \in DOMAIN a :
          IF c \in UrlColumns /\ a[c] \in {None, FloatNaN}
          THEN b[c] \in {None, FloatNaN}
          ELSE a[c] = b[c]

\* mark_duplicates as it would be with df.duplicated(keep=False)
mark_duplicates_keep_false(t) ==
    [i \in 1..Len(t) |->
        [duplicate_flag |-> \E j \in 1..Len(t) : j # i /\ SameRow(t[j], t[i])] @@ t[i]]

\* df.duplicated(keep="first"): the row repeats an earlier one in all columns
mark_duplicates(t) ==
    [i \in 1..Len(t) |->
        WithColumns(t[i], [duplicate_flag |-> \E j \in 1..(i - 1) : SameRow(t[j], t[i])])]

\* df.isnull().any(axis=1)
mark_null_values(t) ==
    [i \in 1..Len(t) |->
        WithColumns(t[i],
            [null_value_flag |-> \/ t[i].projectref = NaN
                                 \/ t[i].nlnetpage = NaN
                                 \/ t[i].repourl = None])]

\* the exception extract_and_flag_domains(df) raises, "none" when it returns:
\* df["repourl"] of line 209 is a KeyError without the column
extract_and_flag_domains_error(t) ==
    IF ~HasUrlColumn(t) THEN "KeyError"
    ELSE FirstError([i \in 1..Len(t) |-> get_domain_error(t[i].repourl)], 1)

extract_and_flag_domains(t) ==
    [i \in 1..Len(t) |->
        WithColumns(t[i],
            [repodomain |-> get_domain(t[i].repourl),
             domain_extraction_flag |-> get_domain(t[i].repourl) = None])]

\* lines 242-246
filter_out_incomplete_urls_error(t) ==
    IF ~HasUrlColumn(t)
    THEN "ValueError: DataFrame must contain a 'repourl' column."
    ELSE "none"

filter_out_incomplete_urls(t) ==
    [i \in 1..Len(t) |->
        WithColumns(t[i], [incomplete_url_flag |-> ~is_complete_url(t[i].repourl)])]

\* df["repourl"] of line 334 is a KeyError without the column
get_base_repo_url_error(t) ==
    IF ~HasUrlColumn(t) THEN "KeyError"
    ELSE FirstError([i \in 1..Len(t) |-> extract_url_error(t[i].repourl)], 1)

get_base_repo_url(t) ==
    [i \in 1..Len(t) |->
        WithColumns(t[i],
            [base_repo_url |-> extract_url(t[i].repourl).url,
             base_repo_url_flag |-> extract_url(t[i].repourl).flag])]

\* one message of an explanation; `missing` is the number the
\* incomplete-URL message carries, 0 in every other message
Msg(t) == [text |-> t, missing |-> 0]

MsgIncomplete(n) == [text |-> "URL is incomplete; missing parts", missing |-> n]

\* len(row["repourl"].rstrip("/").split("/"))
UrlPartCount(u) == Len(Split(RStrip(u, "/"), "/"))

\* initial_data_preparation.add_explanations.get_explanation; the messages are
\* joined with " | ", modelled as the sequence of the messages
prep_get_explanation(row) ==
    LET explanations ==
            (IF row.duplicate_flag
             THEN <<Msg("Row is marked as a duplicate of another entry.")>> ELSE <<>>)
         \o (IF row.null_value_flag
             THEN <<Msg("Row contains null values.")>> ELSE <<>>)
         \o (IF row.base_repo_url_flag
             THEN <<Msg("Unable to extract base repository URL.")>> ELSE <<>>)
         \o (IF row.incomplete_url_flag /\ UrlPartCount(row.repourl) < 5
             THEN <<MsgIncomplete(5 - UrlPartCount(row.repourl))>> ELSE <<>>)
         \o (IF row.domain_extraction_flag
             THEN <<Msg("Domain could not be extracted due to unsupported or malformed URL.")>>
             ELSE <<>>)
    IN IF explanations = <<>> THEN <<Msg("No issues detected.")>> ELSE explanations

prep_add_explanations(t) ==
    [i \in 1..Len(t) |->
        WithColumns(t[i], [explanation |-> prep_get_explanation(t[i])])]

\* lines 463-486: the flagged table computed from the table read
Pipeline(t) ==
    LET stripped == [i \in 1..Len(t) |->
                        [t[i] EXCEPT !.repourl = StripUrl(t[i].repourl)]]
        marked == mark_null_values(mark_duplicates(stripped))
        https == [i \in 1..Len(t) |->
                     [marked[i] EXCEPT !.repourl = HttpToHttps(marked[i].repourl)]]
    IN prep_add_explanations(
           get_base_repo_url(
               filter_out_incomplete_urls(extract_and_flag_domains(https))))

(***************************************************************************)
(* SpecPrep: the pipeline run on a table read from the TSV file.           *)
(***************************************************************************)
\* the repourl values of the input lines
RawUrls ==
    { <<"https", ":", "/", "/", "github", ".", "com", "/", "a", "/", "b">>,
      <<"https", ":", "/", "/", "github", ".", "com", "/", "a", "/", "b", "/">>,
      <<"http", ":", "/", "/", "github", ".", "com", "/", "a", "/", "b">>,
      <<"+", "https", ":", "/", "/", "github", ".", "com", "/", "a">>,
      <<"ftp", ":", "/", "/", "github", ".", "com", "/", "a", "/", "b">>,
      <<"https", ":", "/", "/", "gitlab", ".", "com", "/", "a">>,
      <<"github", ".", "com", "/", "a", "/", "b">>,
      <<"https", ":", "/", "/", "[", "github", ".", "com", "/", "a", "/", "b">>,
      <<>> }

\* projectref and nlnetpage come together from a 3-column line; they are
\* pd.NA when a 1-column line has no 3-column line before it
RawRows ==
    { [projectref |-> pr, nlnetpage |-> IF pr = NaN THEN NaN ELSE "page", repourl |-> u] :
        pr \in {"p1", "p2", NaN}, u \in RawUrls }

RawTables == UNION { [1..n -> RawRows] : n \in 0..MaxRows }

InitPrep ==
    tbl \in RawTables /\ ppc = "read" /\ partitions = {} /\ UrlIdle /\ DrvIdle /\ ReqIdle /\ MetIdle /\ TxtIdle

\* line 463
StripUrls ==
    /\ ppc = "read"
    /\ tbl' = [i \in 1..Len(tbl) |->
                  [tbl[i] EXCEPT !.repourl = StripUrl(tbl[i].repourl)]]
    /\ ppc' = "stripped"
    /\ UNCHANGED <<urlVars, drvVars, reqVars, metVars, txtVars, partitions>>

\* line 467
MarkDuplicates ==
    /\ ppc = "stripped"
    /\ tbl' = mark_duplicates(tbl)
    /\ ppc' = "duplicates"
    /\ UNCHANGED <<urlVars, drvVars, reqVars, metVars, txtVars, partitions>>

\* line 468
MarkNullValues ==
    /\ ppc = "duplicates"
    /\ tbl' = mark_null_values(tbl)
    /\ ppc' = "nulls"
    /\ UNCHANGED <<urlVars, drvVars, reqVars, metVars, txtVars, partitions>>

\* line 471
ReplaceHttp ==
    /\ ppc = "nulls"
    /\ tbl' = [i \in 1..Len(tbl) |->
                  [tbl[i] EXCEPT !.repourl = HttpToHttps(tbl[i].repourl)]]
    /\ ppc' = "https"
    /\ UNCHANGED <<urlVars, drvVars, reqVars, metVars, txtVars, partitions>>

\* line 476
ExtractDomains ==
    /\ ppc = "https"
    /\ IF extract_and_flag_domains_error(tbl) # "none"
       THEN /\ ppc' = Raised("extract_and_flag_domains",
                             extract_and_flag_domains_error(tbl))
            /\ tbl' = tbl
       ELSE /\ tbl' = extract_and_flag_domains(tbl)
            /\ ppc' = "domains"
    /\ UNCHANGED <<urlVars, drvVars, reqVars, metVars, txtVars, partitions>>

\* line 480
FilterIncomplete ==
    /\ ppc = "domains"
    /\ IF filter_out_incomplete_urls_error(tbl) # "none"
       THEN /\ ppc' = Raised("filter_out_incomplete_urls",
                             filter_out_incomplete_urls_error(tbl))
            /\ tbl' = tbl
       ELSE /\ tbl' = filter_out_incomplete_urls(tbl)
            /\ ppc' = "incomplete"
    /\ UNCHANGED <<urlVars, drvVars, reqVars, metVars, txtVars, partitions>>

\* line 483
GetBaseRepoUrl ==
    /\ ppc = "incomplete"
    /\ IF get_base_repo_url_error(tbl) # "none"
       THEN /\ ppc' = Raised("get_base_repo_url", get_base_repo_url_error(tbl))
            /\ tbl' = tbl
       ELSE /\ tbl' = get_base_repo_url(tbl)
            /\ ppc' = "flagged"
    /\ UNCHANGED <<urlVars, drvVars, reqVars, metVars, txtVars, partitions>>

\* line 486
AddExplanations ==
    /\ ppc = "flagged"
    /\ tbl' = prep_add_explanations(tbl)
    /\ ppc' = "explained"
    /\ UNCHANGED <<urlVars, drvVars, reqVars, metVars, txtVars, partitions>>

\* line 540: the least number of rows of a domain that gets its own file
PartitionThreshold == 10

\* df["repodomain"].unique(): the distinct values in the order they first appear
RECURSIVE Unique(_)
Unique(xs) ==
    IF xs = <<>> THEN <<>>
    ELSE LET init == Unique(SubSeq(xs, 1, Len(xs) - 1))
             x == xs[Len(xs)]
         IN IF \E k \in 1..Len(init) : init[k] = x THEN init ELSE Append(init, x)

\* a row without its repodomain column
DropDomain(row) == [c \in DOMAIN row \ {"repodomain"} |-> row[c]]

\* lines 506-511: df[df["repodomain"] == domain].drop("repodomain", axis=1);
\* the comparison with a missing domain is False on every row
DomainDf(t, domain) ==
    LET IsOfDomain(row) == domain # None /\ row.repodomain = domain
        sel == SelectSeq(t, IsOfDomain)
    IN [i \in 1..Len(sel) |-> DropDomain(sel[i])]

\* a row of a domain's table in the columns of df: repodomain is missing
WithNullDomain(row) == [repodomain |-> None] @@ row

\* lines 537-557: the rows of other_domains_df after the domains of ds
RECURSIVE OtherDomains(_, _)
OtherDomains(t, ds) ==
    IF ds = <<>> THEN <<>>
    ELSE LET domain_df == DomainDf(t, ds[1])
         IN (IF Len(domain_df) >= PartitionThreshold THEN <<>>
             ELSE [i \in 1..Len(domain_df) |-> WithNullDomain(domain_df[i])])
            \o OtherDomains(t, Tail(ds))

\* to_csv to a path: the file replaces the one of that name
WriteCsv(files, name, rows) ==
    {f \in files : f.name # name} \cup {[name |-> name, rows |-> rows]}

\* lines 539-548: the named files written for the domains of ds, in order
RECURSIVE NamedFiles(_, _, _)
NamedFiles(files, t, ds) ==
    IF ds = <<>> THEN files
    ELSE LET domain_df == DomainDf(t, ds[1])
         IN NamedFiles(IF Len(domain_df) >= PartitionThreshold
                       THEN WriteCsv(files, sanitise_directory_name(ds[1]), domain_df)
                       ELSE files,
                       t, Tail(ds))

other_domains == <<"other", "_", "domains">>

\* lines 496-565: the per-domain files and other_domains.csv (the text file
\* of the counts is a file nothing reads)
Partition ==
    /\ ppc = "explained"
    /\ LET distinct_domains == Unique([i \in 1..Len(tbl) |-> tbl[i].repodomain])
           named == NamedFiles(partitions, tbl, distinct_domains)
           other_domains_df == OtherDomains(tbl, distinct_domains)
       IN partitions' = IF other_domains_df # <<>>
                        THEN WriteCsv(named, other_domains, other_domains_df)
                        ELSE named
    /\ ppc' = "partitioned"
    /\ UNCHANGED <<tbl, urlVars, drvVars, reqVars, metVars, txtVars>>

NextPrep ==
    \/ Partition
    \/ AddExplanations
    \/ StripUrls
    \/ MarkDuplicates
    \/ MarkNullValues
    \/ ReplaceHttp
    \/ ExtractDomains
    \/ FilterIncomplete
    \/ GetBaseRepoUrl

SpecPrep == InitPrep /\ [][NextPrep]_vars

(***************************************************************************)
(* Claims about the flagged table (checked under SpecPrep).                *)
(***************************************************************************)
\* C9: in the flagged table a row has a non-null base_repo_url only if its
\* domain_extraction_flag, incomplete_url_flag and duplicate_flag are all false.
C9_BaseUrlOnlyIfUnflagged ==
    ppc = "flagged"
        => \A i \in 1..Len(tbl) :
               tbl[i].base_repo_url # None
                   => /\ ~tbl[i].domain_extraction_flag
                      /\ ~tbl[i].incomplete_url_flag
                      /\ ~tbl[i].duplicate_flag

\* C10: for every row with duplicate_flag true, after the domain,
\* incomplete-URL and base-URL steps its domain is null, its
\* incomplete_url_flag is false and its base_repo_url is null.
C10_DuplicatesNotProcessed ==
    ppc = "flagged"
        => \A i \in 1..Len(tbl) :
               tbl[i].duplicate_flag
                   => /\ tbl[i].repodomain = None
                      /\ ~tbl[i].incomplete_url_flag
                      /\ tbl[i].base_repo_url = None

(***************************************************************************)
(* The clone driver: github_repo_request_local.py, __main__.               *)
(***************************************************************************)
BATCH_SIZE == 10

EXPECTED_URL_PARTS == 5

\* pd.isna / pd.notna of a scalar cell
IsNa(v) == v \in {NaN, PyNone}

\* DataFrame.to_csv / pd.read_csv of one row: a null cell is written as the
\* empty field, and the empty field (an empty string too) is read as NaN
ToCsvRow(row) ==
    [c \in DOMAIN row |->
        IF c \in {"repourl", "repodomain", "base_repo_url"}
        THEN (IF row[c] = None THEN <<>> ELSE row[c])
        ELSE IF c \in {"projectref", "nlnetpage", "clone_status", "last_commit_hash"}
        THEN (IF IsNa(row[c]) THEN "" ELSE row[c])
        ELSE row[c]]

ReadCsvRow(line) ==
    [c \in DOMAIN line |->
        IF c \in {"repourl", "repodomain", "base_repo_url"}
        THEN (IF line[c] = <<>> THEN None ELSE line[c])
        ELSE IF c \in {"projectref", "nlnetpage", "clone_status", "last_commit_hash"}
        THEN (IF line[c] = "" THEN NaN ELSE line[c])
        ELSE line[c]]

to_csv(t) == [i \in 1..Len(t) |-> ToCsvRow(t[i])]

read_csv(file) == [i \in 1..Len(file) |-> ReadCsvRow(file[i])]

\* position of the last "." of a name, 0 if there is none
RECURSIVE LastDot(_, _)
LastDot(s, i) ==
    IF i = 0 THEN 0 ELSE IF s[i] = "." THEN i ELSE LastDot(s, i - 1)

\* Path(name).stem: the name without its last suffix
Stem(name) ==
    LET d == LastDot(name, Len(name))
    IN IF d > 1 /\ d < Len(name) THEN SubSeq(name, 1, d - 1) ELSE name

\* lines 308-317: clone_dir_base / sanitised_domain / repo_name
CloneDirOf(row) ==
    LET parts == Split(row.repourl, "/")
    IN <<sanitise_directory_name(row.repodomain), Stem(parts[Len(parts)])>>

\* clone_dir.exists(); a directory on disk is <<path, url it was cloned from>>
DirExists(d) == \E e \in dirs : e[1] = d

OriginOf(d) == (CHOOSE e \in dirs : e[1] = d)[2]

\* IsFlagged as it would be if only the duplicates were passed over
IsFlaggedDuplicatesOnly(row) == row.duplicate_flag = TRUE

\* lines 291-296: the row is flagged
IsFlagged(row) ==
    \/ row.duplicate_flag = TRUE
    \/ row.domain_extraction_flag = TRUE
    \/ row.incomplete_url_flag = TRUE
    \/ row.base_repo_url_flag = TRUE

\* IsFullyProcessed as it would be with pd.isna in place of pd.notna
IsFullyProcessedIsna(row) ==
    row.testfilecountlocal # -1 /\ IsNa(row.last_commit_hash)

\* line 301: the row is fully processed
IsFullyProcessed(row) ==
    row.testfilecountlocal # -1 /\ ~IsNa(row.last_commit_hash)

\* IsSkipped as it would be without the fully-processed test of line 301
IsSkippedFlagsOnly(row) == IsFlagged(row) \/ row.repourl = <<>>

\* lines 291-306: the iteration goes on to the next row at once
IsSkipped(row) == IsFlagged(row) \/ IsFullyProcessed(row) \/ row.repourl = <<>>

\* df.at[index, column] = None: None in a column of objects, NaN in a column
\* read_csv found empty (float64)
StoredNone(t, column) ==
    IF \A i \in 1..Len(t) : t[i][column] = NaN THEN NaN ELSE PyNone

\* github_repo_request_local.add_explanations.get_explanation
get_explanation(row) ==
    LET clone_status == row.clone_status
        primary ==
            IF row.duplicate_flag
            THEN <<Msg("Row is marked as a duplicate of another entry.")>>
            ELSE IF row.null_value_flag
            THEN <<Msg("Row contains null values.")>>
            ELSE IF row.domain_extraction_flag
            THEN <<Msg("Domain could not be extracted due to unsupported or malformed URL.")>>
            ELSE IF row.incomplete_url_flag
            THEN (IF UrlPartCount(row.repourl) < EXPECTED_URL_PARTS
                  THEN <<MsgIncomplete(EXPECTED_URL_PARTS - UrlPartCount(row.repourl))>>
                  ELSE <<>>)
            ELSE IF row.base_repo_url_flag
            THEN <<Msg("Unable to extract base repository URL.")>>
            ELSE IF clone_status = "failed"
            THEN <<Msg("Repository clone failed.")>>
            ELSE IF clone_status = PyNone
            THEN <<Msg("Clone status unknown.")>>
            ELSE <<>>
        metrics ==
            IF clone_status = "successful"
            THEN (IF row.testfilecountlocal = -1
                  THEN <<Msg("Test files could not be counted.")>> ELSE <<>>)
              \o (IF row.last_commit_hash = PyNone
                  THEN <<Msg("Last commit hash could not be retrieved.")>> ELSE <<>>)
            ELSE <<>>
    IN IF primary \o metrics = <<>>
       THEN <<Msg("No issues detected.")>>
       ELSE primary \o metrics

add_explanations(t) ==
    [i \in 1..Len(t) |-> WithColumns(t[i], [explanation |-> get_explanation(t[i])])]

\* lines 257-263: the input table with the driver's columns initialised
InitialTable(file) ==
    LET t == read_csv(file.rows)
    IN [i \in 1..Len(t) |->
           WithColumns(t[i], [clone_status |-> PyNone,
                              testfilecountlocal |-> -1,
                              last_commit_hash |-> PyNone])]

\* lines 250-263: the table the run works on
LoadTable ==
    IF snapshot.exists THEN read_csv(snapshot.rows) ELSE InitialTable(inputFile)

\* lines 228-281: a process starts
Start ==
    /\ runs' = runs + 1
    /\ keep_clones' \in BOOLEAN
    /\ loaded' = IF snapshot.exists THEN File(read_csv(snapshot.rows)) ELSE NoFile
    /\ cloned' = {}
    /\ processed_count' = 0
    /\ clone_dir' = NoDir
    /\ IF ~snapshot.exists /\ ~inputFile.exists
       THEN \* lines 264-269: sys.exit(1)
            pc' = "exit1" /\ df' = <<>> /\ index' = 0
       ELSE pc' = "loop" /\ df' = LoadTable /\ index' = 1
    /\ UNCHANGED <<inputFile, remote, snapshot, dirs, unsaved, urlVars, prepVars, reqVars, metVars, txtVars>>

\* the first run
StartRun == pc = "idle" /\ Start

\* a later run, after the process before it ended or was killed
Rerun == pc \in {"done", "killed", "uncaught"} /\ runs < MaxRuns /\ Start

\* lines 285-306: an iteration that goes on to the next row at once
SkipRow ==
    /\ pc = "loop" /\ index <= Len(df)
    /\ IsSkipped(df[index])
    /\ index' = index + 1
    /\ UNCHANGED <<inputFile, remote, snapshot, dirs, df, pc, processed_count,
                   clone_dir, keep_clones, runs, loaded, cloned, unsaved,
                   urlVars, prepVars, reqVars, metVars, txtVars>>

\* list_test_files: the names of the test files of a clone that holds n of
\* them, each a path below the clone directory
TestFileNames(dir, n) ==
    [k \in 1..n |-> dir[1] \o <<"/">> \o dir[2] \o <<"/", "test", ToString(k)>>]

\* lines 370-374: the lines of a block of the test-file list: the URL, one
\* line for each name, an empty line
ListBlock(repo_url, names) ==
    <<(<<"Repository URL", ":", " ">> \o repo_url)>> \o names \o << <<>> >>

\* MarkFailed as it would be without line 342
MarkFailedKeepsCount(t, i) == [t EXCEPT ![i].clone_status = "failed"]

\* lines 341-342: the row of a failed clone
MarkFailed(t, i) ==
    [t EXCEPT ![i].clone_status = "failed", ![i].testfilecountlocal = -1]

\* lines 308-352: git clone exits non-zero (it leaves no directory behind)
CloneFails ==
    /\ pc = "loop" /\ index <= Len(df)
    /\ ~IsSkipped(df[index])
    /\ ~DirExists(CloneDirOf(df[index]))
    /\ clone_dir' = CloneDirOf(df[index])
    /\ df' = MarkFailed(df, index)
    /\ processed_count' = processed_count + 1
    /\ cloned' = cloned \cup {index}
    /\ unsaved' = unsaved + 1
    /\ index' = index + 1
    /\ UNCHANGED <<inputFile, remote, snapshot, dirs, pc, keep_clones, runs,
                   loaded, urlVars, prepVars, reqVars, metVars, txtVars>>

\* lines 308-393: the clone directory exists or git clone succeeds; then the
\* commit hash, the test-file count and the batch check
ProcessRow ==
    /\ pc = "loop" /\ index <= Len(df)
    /\ ~IsSkipped(df[index])
    /\ LET row == df[index]
           dir == CloneDirOf(row)
           clones == ~DirExists(dir)
           origin == IF clones THEN row.repourl ELSE OriginOf(dir)
           count1 == IF clones THEN processed_count + 1 ELSE processed_count
           hash == IF remote[origin].head = PyNone
                   THEN StoredNone(df, "last_commit_hash")
                   ELSE remote[origin].head
           df1 == [df EXCEPT ![index].clone_status = "successful"]
           df2 == IF IsNa(row.last_commit_hash)
                  THEN [df1 EXCEPT ![index].last_commit_hash = hash]
                  ELSE df1
           df3 == IF row.testfilecountlocal = -1
                  THEN [df2 EXCEPT ![index].testfilecountlocal = remote[origin].files]
                  ELSE df2
           saves == count1 + 1 >= BATCH_SIZE
       IN /\ clone_dir' = dir
          /\ dirs' = IF clones THEN dirs \cup {<<dir, row.repourl>>} ELSE dirs
          /\ cloned' = IF clones THEN cloned \cup {index} ELSE cloned
          /\ df' = df3
          /\ snapshot' = IF saves THEN File(to_csv(df3)) ELSE snapshot
          /\ processed_count' = IF saves THEN 0 ELSE count1 + 1
          /\ unsaved' = IF saves THEN 0 ELSE unsaved + 1
          /\ list_buffer' =
                 IF row.testfilecountlocal = -1
                 THEN list_buffer
                      \o ListBlock(row.repourl, TestFileNames(dir, remote[origin].files))
                 ELSE list_buffer
    /\ index' = index + 1
    /\ UNCHANGED <<inputFile, remote, pc, keep_clones, runs, loaded,
                   urlVars, prepVars, reqVars, metVars,
                   tsv_lines, list_file, written, read_repos, read_data, lpc>>

\* lines 395-433: the final save, the clean-up, the explanations, the save of
\* the explained table (the RDF export that follows writes a file nothing reads)
Finish ==
    /\ pc = "loop" /\ index > Len(df)
    /\ IF processed_count > 0 /\ ~keep_clones /\ ~DirExists(clone_dir)
       THEN \* shutil.rmtree(clone_dir) raises FileNotFoundError
            /\ snapshot' = File(to_csv(df))
            /\ pc' = "uncaught"
            /\ UNCHANGED <<df, dirs>>
       ELSE /\ dirs' = IF processed_count > 0 /\ ~keep_clones
                       THEN {e \in dirs : e[1] # clone_dir}
                       ELSE dirs
            /\ df' = add_explanations(df)
            /\ snapshot' = File(to_csv(add_explanations(df)))
            /\ pc' = "done"
    /\ unsaved' = 0
    \* the with statement of line 284 closes the file when the loop ends
    /\ list_file' = list_file \o list_buffer
    /\ list_buffer' = <<>>
    /\ UNCHANGED <<inputFile, remote, index, processed_count, clone_dir,
                   keep_clones, runs, loaded, cloned, urlVars, prepVars, reqVars,
                   metVars, tsv_lines, written, read_repos, read_data, lpc>>

\* the process is stopped between two rows: its memory is lost, the files
\* stay. A KeyboardInterrupt leaves the with statement of line 284, which
\* closes the list file and so writes its buffer; a kill loses the buffer
Interrupt ==
    /\ pc = "loop" /\ index <= Len(df)
    /\ pc' = "killed"
    /\ \E closed \in BOOLEAN :
          list_file' = IF closed THEN list_file \o list_buffer ELSE list_file
    /\ list_buffer' = <<>>
    /\ UNCHANGED <<inputFile, remote, snapshot, dirs, df, index, processed_count,
                   clone_dir, keep_clones, runs, loaded, cloned, unsaved,
                   urlVars, prepVars, reqVars, metVars,
                   tsv_lines, written, read_repos, read_data, lpc>>

\* between two runs somebody removes a clone directory
RemoveCloneDir ==
    /\ pc \in {"done", "killed", "uncaught"} /\ runs < MaxRuns
    /\ \E e \in dirs : dirs' = dirs \ {e}
    /\ UNCHANGED <<inputFile, remote, snapshot, df, index, pc, processed_count,
                   clone_dir, keep_clones, runs, loaded, cloned, unsaved,
                   urlVars, prepVars, reqVars, metVars, txtVars>>

(***************************************************************************)
(* The tables and the remote repositories the driver is run on.            *)
(***************************************************************************)
GitHubUrl(path) == <<"https", ":", "/", "/", "github", ".", "com", "/">> \o path

RawRow(u) == [projectref |-> "p1", nlnetpage |-> "page", repourl |-> u]

\* what a clone of a repository holds: the hash of HEAD (None for a
\* repository without commits) and the number of its test files
RepoKinds == { [head |-> "c0ffee", files |-> 1], [head |-> PyNone, files |-> 0] }

\* SpecDriver: two repositories whose clone directories coincide
\* (github_com/b), and a URL the pipeline flags as incomplete
DrvUrls == { GitHubUrl(<<"a", "/", "b">>), GitHubUrl(<<"c", "/", "b", ".", "git">>),
             GitHubUrl(<<"a">>) }

DrvTables == UNION { [1..n -> {RawRow(u) : u \in DrvUrls}] : n \in 1..MaxDrvRows }

Repos(t) == { t[i].repourl : i \in 1..Len(t) }

InitDriver ==
    /\ \E raw \in DrvTables :
          /\ inputFile \in {File(to_csv(Pipeline(raw))), NoFile}
          /\ remote \in [Repos(Pipeline(raw)) -> RepoKinds]
    /\ snapshot = NoFile /\ dirs = {} /\ df = <<>> /\ index = 0 /\ pc = "idle"
    /\ processed_count = 0 /\ clone_dir = NoDir /\ keep_clones = FALSE /\ runs = 0
    /\ loaded = NoFile /\ cloned = {} /\ unsaved = 0
    /\ UrlIdle /\ PrepIdle /\ ReqIdle /\ MetIdle /\ TxtIdle

NextDriver ==
    \/ StartRun
    \/ Rerun
    \/ SkipRow
    \/ CloneFails
    \/ ProcessRow
    \/ Finish
    \/ Interrupt
    \/ RemoveCloneDir

SpecDriver == InitDriver /\ [][NextDriver]_vars

\* SpecBatch: one run over a long table of distinct repositories r1, r2, ...,
\* the first row flagged or not
BatchTable(n, flagged) ==
    [i \in 1..n |->
        IF i = 1 /\ flagged THEN RawRow(GitHubUrl(<<"a">>))
        ELSE RawRow(GitHubUrl(<<"a", "/", "r", ToString(i)>>))]

InitBatch ==
    /\ \E n \in 1..MaxBatchRows, flagged \in BOOLEAN :
          /\ inputFile = File(to_csv(Pipeline(BatchTable(n, flagged))))
          /\ remote = [u \in Repos(Pipeline(BatchTable(n, flagged))) |->
                          [head |-> "c0ffee", files |-> 1]]
    /\ snapshot = NoFile /\ dirs = {} /\ df = <<>> /\ index = 0 /\ pc = "idle"
    /\ processed_count = 0 /\ clone_dir = NoDir /\ keep_clones = FALSE /\ runs = 0
    /\ loaded = NoFile /\ cloned = {} /\ unsaved = 0
    /\ UrlIdle /\ PrepIdle /\ ReqIdle /\ MetIdle /\ TxtIdle

NextBatch ==
    \/ StartRun
    \/ SkipRow
    \/ CloneFails
    \/ ProcessRow
    \/ Finish

SpecBatch == InitBatch /\ [][NextBatch]_vars

(***************************************************************************)
(* Claims about the clone driver.                                          *)
(***************************************************************************)
\* the run at hand was started from a progress snapshot
Resumed == loaded.exists

\* C1 as stated: on a run started from a progress snapshot, git clone is never
\* invoked for a row whose snapshot has clone_status = "successful" and
\* testfilecountlocal different from -1.
C1_NoCloneOfCountedRow ==
    Resumed
        => \A i \in cloned :
               ~(/\ loaded.rows[i].clone_status = "successful"
                 /\ loaded.rows[i].testfilecountlocal # -1)

\* C1 (amended): on a run started from a progress snapshot, git clone is never
\* invoked for a row whose snapshot has testfilecountlocal different from -1
\* and a non-null last_commit_hash, whatever its other fields and whatever is
\* on disk.
C1_NoCloneOfFullyProcessedRow ==
    Resumed
        => \A i \in cloned :
               ~(/\ loaded.rows[i].testfilecountlocal # -1
                 /\ ~IsNa(loaded.rows[i].last_commit_hash))

\* a resumed run has passed a row that is fully processed in the snapshot, is
\* not flagged, and whose clone directory is gone
C1_Witness ==
    /\ Resumed
    /\ pc = "loop"
    /\ \E i \in 1..(index - 1) :
          /\ ~IsFlagged(loaded.rows[i])
          /\ loaded.rows[i].clone_status = "successful"
          /\ loaded.rows[i].testfilecountlocal # -1
          /\ ~IsNa(loaded.rows[i].last_commit_hash)
          /\ ~DirExists(CloneDirOf(loaded.rows[i]))
          /\ i \notin cloned

\* C2: at every point of the run the number of rows processed (cloned
\* successfully or failed) since the last write of the progress snapshot is at
\* most BATCH_SIZE.
C2_AtMostOneBatchUnsaved == unsaved <= BATCH_SIZE

\* C3: a failed clone marks only its own row failed, every later eligible row
\* is still processed, and the run reaches its final save without an uncaught
\* error (a missing input file ends it with exit code 1, which is not one).
C3_FailureIsolation ==
    [][/\ pc' # "uncaught"
       /\ (pc = "loop" /\ pc' = "loop" /\ index' = index + 1)
              => \A j \in 1..Len(df) : j # index => df'[j] = df[j]
       /\ pc' = "done"
              => \A i \in 1..Len(df') :
                     ~IsFlagged(df'[i])
                         => df'[i].clone_status \in {"successful", "failed"}]_vars

\* C4 as stated: a row whose clone_status is "failed" in the loaded snapshot is
\* never cloned again by a later run, and a row that reached MetricsCounted is
\* never processed again.
C4_FailedAndCountedAreTerminal ==
    Resumed
        => \A i \in 1..Len(loaded.rows) :
               /\ loaded.rows[i].clone_status = "failed" => i \notin cloned
               /\ IsFullyProcessed(loaded.rows[i])
                      => /\ i \notin cloned
                         /\ pc = "loop"
                                => /\ df[i].clone_status = loaded.rows[i].clone_status
                                   /\ df[i].testfilecountlocal
                                          = loaded.rows[i].testfilecountlocal
                                   /\ df[i].last_commit_hash
                                          = loaded.rows[i].last_commit_hash

\* C4 (amended): a row that reached MetricsCounted (testfilecountlocal
\* different from -1 and a commit hash) is never processed again: a later run
\* neither clones it nor changes its clone_status, count or hash.  A failed row
\* is not terminal: the next run that finds no clone directory clones it again.
C4_CountedIsTerminal ==
    Resumed
        => \A i \in 1..Len(loaded.rows) :
               IsFullyProcessed(loaded.rows[i])
                   => /\ i \notin cloned
                      /\ pc = "loop"
                             => /\ df[i].clone_status = loaded.rows[i].clone_status
                                /\ df[i].testfilecountlocal
                                       = loaded.rows[i].testfilecountlocal
                                /\ df[i].last_commit_hash
                                       = loaded.rows[i].last_commit_hash

\* a resumed run has passed an unflagged row that the snapshot holds as
\* MetricsCounted, and has cloned again a row the snapshot holds as failed
C4_Witness ==
    /\ Resumed
    /\ pc = "loop"
    /\ \E i \in 1..(index - 1) :
          ~IsFlagged(loaded.rows[i]) /\ IsFullyProcessed(loaded.rows[i])
    /\ \E j \in cloned : loaded.rows[j].clone_status = "failed"

(***************************************************************************)
(* SpecExplain: the two add_explanations functions applied to a one-row    *)
(* table holding any combination of flags, clone_status, count and hash.   *)
(***************************************************************************)
\* the rows a test of add_explanations builds: incomplete_url_flag goes with
\* the URL, every other column is free
ExplainRows ==
    { [projectref |-> "p1", nlnetpage |-> "page", repourl |-> u,
       duplicate_flag |-> d, null_value_flag |-> n, domain_extraction_flag |-> x,
       incomplete_url_flag |-> ~is_complete_url(u), base_repo_url_flag |-> b,
       clone_status |-> cs, testfilecountlocal |-> c, last_commit_hash |-> h] :
        u \in {GitHubUrl(<<"a">>), GitHubUrl(<<"a", "/", "b">>)},
        d \in BOOLEAN, n \in BOOLEAN, x \in BOOLEAN, b \in BOOLEAN,
        cs \in {PyNone, NaN, "failed", "successful"},
        c \in {-1, 0, 1},
        h \in {PyNone, NaN, "c0ffee"} }

InitExplain ==
    /\ \E row \in ExplainRows : tbl = <<row>>
    /\ ppc = "combo" /\ partitions = {}
    /\ UrlIdle /\ DrvIdle /\ ReqIdle /\ MetIdle /\ TxtIdle

\* github_repo_request_local.add_explanations(df)
DrvExplain ==
    /\ ppc = "combo"
    /\ tbl' = add_explanations(tbl)
    /\ ppc' = "drv_explained"
    /\ UNCHANGED <<urlVars, drvVars, reqVars, metVars, txtVars, partitions>>

\* initial_data_preparation.add_explanations(df)
PrepExplain ==
    /\ ppc = "combo"
    /\ tbl' = prep_add_explanations(tbl)
    /\ ppc' = "prep_explained"
    /\ UNCHANGED <<urlVars, drvVars, reqVars, metVars, txtVars, partitions>>

NextExplain == DrvExplain \/ PrepExplain

SpecExplain == InitExplain /\ [][NextExplain]_vars

(***************************************************************************)
(* Claims about add_explanations (checked under SpecExplain).              *)
(***************************************************************************)
\* the precedence tier a message belongs to, 0 for "No issues detected."
Tier(msg) ==
    CASE msg.text = "Row is marked as a duplicate of another entry." -> 1
      [] msg.text = "Row contains null values." -> 2
      [] msg.text = "Domain could not be extracted due to unsupported or malformed URL." -> 3
      [] msg.text = "URL is incomplete; missing parts" -> 4
      [] msg.text = "Unable to extract base repository URL." -> 5
      [] msg.text = "Repository clone failed." -> 6
      [] msg.text = "Clone status unknown." -> 6
      [] msg.text = "Test files could not be counted." -> 7
      [] msg.text = "Last commit hash could not be retrieved." -> 7
      [] OTHER -> 0

\* the tier of the first flag that holds, 0 when the row has no flag
FlagTier(row) ==
    IF row.duplicate_flag THEN 1
    ELSE IF row.null_value_flag THEN 2
    ELSE IF row.domain_extraction_flag THEN 3
    ELSE IF row.incomplete_url_flag THEN 4
    ELSE IF row.base_repo_url_flag THEN 5
    ELSE 0

Tiers(row) == { Tier(row.explanation[k]) : k \in 1..Len(row.explanation) }

\* C11: the explanation of a row holds messages of one precedence tier only,
\* and when a flag of the row holds it is the tier of the first flag in the
\* order duplicate, null value, unsupported scheme, incomplete, base URL.
C11_OnePrimaryReason ==
    ppc \in {"drv_explained", "prep_explained"}
        => /\ Cardinality(Tiers(tbl[1])) = 1
           /\ FlagTier(tbl[1]) # 0 => Tiers(tbl[1]) = {FlagTier(tbl[1])}

(***************************************************************************)
(* SpecSteps: one flagging step applied to a table as a caller (a test)    *)
(* may build it: URL cells that are not strings, or no URL column at all.  *)
(***************************************************************************)
StepUrls ==
    { <<"https", ":", "/", "/", "github", ".", "com", "/", "a", "/", "b">>,
      <<"https", ":", "/", "/", "github", ".", "com", "/", "a", "/">>,
      <<"git", ":", "/", "/", "GitLab", ".", "com", "/", "a", "/", "b", "/">>,
      <<"ftp", ":", "/", "/", "github", ".", "com", "/", "a", "/", "b">>,
      <<"http", ":", "/", "/", "/", "github", ".", "com", "/", "a">>,
      <<"https", ":", "/", "/", "[", "github", ".", "com", "/", "a", "/", "b">>,
      <<"github", ".", "com", "/", "a", "/", "b">>,
      <<>> }
    \cup NonStrings

StepRows ==
    { [projectref |-> "p1", nlnetpage |-> "page", repourl |-> u] : u \in StepUrls }
    \cup { [projectref |-> "p2", nlnetpage |-> "page",
            repourl |-> <<"https", ":", "/", "/", "github", ".", "com", "/", "a", "/", "b">>] }

\* rows of a table without the repourl column
NoUrlRows == { [projectref |-> pr, nlnetpage |-> "page"] : pr \in {"p1", "p2"} }

StepTables ==
    UNION { [1..n -> StepRows] : n \in 0..MaxStepRows }
    \cup UNION { [1..n -> NoUrlRows] : n \in 1..MaxStepRows }

InitSteps ==
    tbl \in StepTables /\ ppc = "given" /\ partitions = {} /\ UrlIdle /\ DrvIdle /\ ReqIdle /\ MetIdle /\ TxtIdle

\* mark_duplicates(df, output_path)
StepMarkDuplicates ==
    /\ ppc = "given"
    /\ tbl' = mark_duplicates(tbl)
    /\ ppc' = "mark_duplicates"
    /\ UNCHANGED <<urlVars, drvVars, reqVars, metVars, txtVars, partitions>>

\* extract_and_flag_domains(df)
StepExtractDomains ==
    /\ ppc = "given"
    /\ IF extract_and_flag_domains_error(tbl) # "none"
       THEN /\ ppc' = Raised("extract_and_flag_domains",
                             extract_and_flag_domains_error(tbl))
            /\ tbl' = tbl
       ELSE /\ tbl' = extract_and_flag_domains(tbl)
            /\ ppc' = "extract_and_flag_domains"
    /\ UNCHANGED <<urlVars, drvVars, reqVars, metVars, txtVars, partitions>>

\* filter_out_incomplete_urls(df, output_path)
StepFilterIncomplete ==
    /\ ppc = "given"
    /\ IF filter_out_incomplete_urls_error(tbl) # "none"
       THEN /\ ppc' = Raised("filter_out_incomplete_urls",
                             filter_out_incomplete_urls_error(tbl))
            /\ tbl' = tbl
       ELSE /\ tbl' = filter_out_incomplete_urls(tbl)
            /\ ppc' = "filter_out_incomplete_urls"
    /\ UNCHANGED <<urlVars, drvVars, reqVars, metVars, txtVars, partitions>>

\* get_base_repo_url(df, output_path)
StepGetBaseRepoUrl ==
    /\ ppc = "given"
    /\ IF get_base_repo_url_error(tbl) # "none"
       THEN /\ ppc' = Raised("get_base_repo_url", get_base_repo_url_error(tbl))
            /\ tbl' = tbl
       ELSE /\ tbl' = get_base_repo_url(tbl)
            /\ ppc' = "get_base_repo_url"
    /\ UNCHANGED <<urlVars, drvVars, reqVars, metVars, txtVars, partitions>>

NextSteps ==
    \/ StepMarkDuplicates
    \/ StepExtractDomains
    \/ StepFilterIncomplete
    \/ StepGetBaseRepoUrl

SpecSteps == InitSteps /\ [][NextSteps]_vars

(***************************************************************************)
(* Claims about the flagging steps (checked under SpecSteps).              *)
(***************************************************************************)
\* position of the last character of s that is not "/", 0 if there is none
RECURSIVE LastNonSlash(_, _)
LastNonSlash(s, i) ==
    IF i = 0 THEN 0 ELSE IF s[i] # "/" THEN i ELSE LastNonSlash(s, i - 1)

\* the number of "/" in s without its trailing slashes
SlashCount(s) ==
    Cardinality({ k \in 1..LastNonSlash(s, Len(s)) : s[k] = "/" })

\* the exceptions a flagging step can end with
StepErrors ==
    {"KeyError", "ValueError", "AttributeError",
     "ValueError: DataFrame must contain a 'repourl' column."}

\* C12: is_complete_url(url) is true exactly when url is a string that, without
\* its trailing slashes, splits on "/" into at least 5 parts (has at least 4
\* slashes); for a value that is not a string it is false, and nothing is
\* raised.
C12_CompleteIffFiveParts ==
    /\ HasUrlColumn(tbl)
           => \A e \in StepErrors : ppc # Raised("filter_out_incomplete_urls", e)
    /\ ppc = "filter_out_incomplete_urls"
           => \A i \in 1..Len(tbl) :
                  tbl[i].incomplete_url_flag
                      = ~(/\ tbl[i].repourl \notin NonStrings
                          /\ SlashCount(tbl[i].repourl) >= 4)

\* the step has flagged a table holding a complete URL, a URL that is
\* incomplete only once its trailing slash is removed, and a value that is not
\* a string
C12_Witness ==
    /\ ppc = "filter_out_incomplete_urls"
    /\ \E i, j, k \in 1..Len(tbl) :
          /\ tbl[i].repourl \notin NonStrings /\ ~tbl[i].incomplete_url_flag
          /\ tbl[j].repourl \notin NonStrings
          /\ Len(Split(tbl[j].repourl, "/")) >= 5 /\ tbl[j].incomplete_url_flag
          /\ tbl[k].repourl \in NonStrings /\ tbl[k].incomplete_url_flag

\* the domain the specification gives a string URL: its host, lower-cased, when
\* the text before "://" is http, https or git and a host follows, else null
SpecifiedDomain(u) ==
    LET sep == CHOOSE k \in 0..Len(u) :
                   /\ k = 0 \/ (k + 2 <= Len(u) /\ u[k] = ":" /\ u[k + 1] = "/" /\ u[k + 2] = "/")
                   /\ \A j \in 1..(k - 1) :
                          ~(j + 2 <= Len(u) /\ u[j] = ":" /\ u[j + 1] = "/" /\ u[j + 2] = "/")
                   /\ k = 0 => \A j \in 1..Len(u) :
                          ~(j + 2 <= Len(u) /\ u[j] = ":" /\ u[j + 1] = "/" /\ u[j + 2] = "/")
        scheme == IF sep = 0 THEN <<>> ELSE SubSeq(u, 1, sep - 1)
        afterSep == IF sep = 0 THEN <<>> ELSE From(u, sep + 3)
        host == Before(afterSep, "/")
    IN IF scheme \in {<<"http">>, <<"https">>, <<"git">>} /\ host # <<>>
       THEN Lower(host)
       ELSE None

\* C13: for every string URL, get_domain returns the parsed hostname when the
\* scheme is http, https or git and the hostname is not empty, and null
\* otherwise; the unsupported flag of a row is true exactly when its domain is
\* null.
C13_DomainIffSupportedScheme ==
    /\ (HasUrlColumn(tbl) /\ \A i \in 1..Len(tbl) : tbl[i].repourl \notin NonStrings)
           => \A e \in StepErrors : ppc # Raised("extract_and_flag_domains", e)
    /\ ppc = "extract_and_flag_domains"
           => \A i \in 1..Len(tbl) :
                  tbl[i].repourl \notin NonStrings
                      => /\ tbl[i].repodomain = SpecifiedDomain(tbl[i].repourl)
                         /\ tbl[i].domain_extraction_flag = (tbl[i].repodomain = None)

\* C14: for every value of the URL column that is not a string (null, integer,
\* float, boolean) domain extraction gives that row a null domain and the
\* unsupported flag, raises nothing, and classifies the other rows.
C14_NonStringsFlaggedPerRow ==
    /\ (/\ HasUrlColumn(tbl)
        /\ \A i \in 1..Len(tbl) :
               tbl[i].repourl \in NonStrings \/ urlparse(tbl[i].repourl).error = "none")
           => \A e \in StepErrors : ppc # Raised("extract_and_flag_domains", e)
    /\ ppc = "extract_and_flag_domains"
           => \A i \in 1..Len(tbl) :
                  tbl[i].repourl \in NonStrings
                      => tbl[i].repodomain = None /\ tbl[i].domain_extraction_flag

\* the cells of a row in a fixed order of the columns, a missing URL as None
Cells(row) ==
    <<row.projectref, row.nlnetpage,
      IF "repourl" \in DOMAIN row
      THEN (IF row.repourl = FloatNaN THEN None ELSE row.repourl)
      ELSE None>>

C16_MissingColumnIsValueError ==
    [][(ppc = "given" /\ ~HasUrlColumn(tbl) /\ ppc' # "mark_duplicates")
           => /\ tbl' = tbl
              /\ ppc' \in { Raised(step, "ValueError: DataFrame must contain a 'repourl' column.") :
                              step \in {"extract_and_flag_domains",
                                        "filter_out_incomplete_urls",
                                        "get_base_repo_url"} }]_vars

(***************************************************************************)
(* SpecPartition: the partition step on a flagged table long enough for a  *)
(* domain to reach the threshold: up to MaxMixRows rows in any order, then *)
(* a run of rows of one host and a run of rows of another.                 *)
(***************************************************************************)
\* my.git.org and my_git.org (their sanitised names coincide), github.com, and
\* a URL of an unsupported scheme, whose domain is missing
PartUrls ==
    { <<"https", ":", "/", "/", "my", ".", "git", ".", "org", "/", "a", "/", "b">>,
      <<"https", ":", "/", "/", "my", "_", "git", ".", "org", "/", "a", "/", "b">>,
      <<"https", ":", "/", "/", "github", ".", "com", "/", "a", "/", "b">>,
      <<"ftp", ":", "/", "/", "github", ".", "com", "/", "a", "/", "b">> }

RunUrl1 == <<"https", ":", "/", "/", "my", ".", "git", ".", "org", "/", "a", "/", "b">>
RunUrl2 == <<"https", ":", "/", "/", "my", "_", "git", ".", "org", "/", "a", "/", "b">>

\* the lengths of a run: none, and around the threshold
RunLengths == {0, PartitionThreshold - 1, PartitionThreshold, PartitionThreshold + 1}

\* the URLs of a table: a mixed head, then n1 rows of RunUrl1, then n2 of RunUrl2
PartUrlSeq(head, n1, n2) ==
    head \o [i \in 1..n1 |-> RunUrl1] \o [i \in 1..n2 |-> RunUrl2]

\* the table read from the TSV file: every line has its own projectref
PartTable(urls) ==
    [i \in 1..Len(urls) |->
        [projectref |-> ToString(i), nlnetpage |-> "page", repourl |-> urls[i]]]

InitPartition ==
    /\ \E head \in UNION { [1..n -> PartUrls] : n \in 0..MaxMixRows },
          n1 \in RunLengths, n2 \in RunLengths :
          tbl = Pipeline(PartTable(PartUrlSeq(head, n1, n2)))
    /\ ppc = "explained"
    /\ partitions = {}
    /\ UrlIdle /\ DrvIdle /\ ReqIdle /\ MetIdle /\ TxtIdle

NextPartition == Partition

SpecPartition == InitPartition /\ [][NextPartition]_vars

(***************************************************************************)
(* Claims about the partition step (checked under SpecPartition).          *)
(***************************************************************************)
\* the domains of the table
Domains == { tbl[i].repodomain : i \in 1..Len(tbl) } \ {None}

\* the projectref values of the rows of a table, in order
Refs(t) == [i \in 1..Len(t) |-> t[i].projectref]

RowCount(d) == Cardinality({ i \in 1..Len(tbl) : tbl[i].repodomain = d })

\* the rows of the file of that name, <<>> when there is no such file
FileRows(name) ==
    IF \E f \in partitions : f.name = name
    THEN (CHOOSE f \in partitions : f.name = name).rows
    ELSE <<>>

\* C17: a domain gets its own named partition file exactly when its row count
\* is at least 10; every domain with fewer rows gets no file of its own and all
\* its rows go to other_domains.
C17_OwnFileIffAtLeastThreshold ==
    ppc = "partitioned"
        => \A d \in Domains :
               LET OfD(row) == row.repodomain = d
                   InOther(ref) == \E k \in 1..Len(FileRows(other_domains)) :
                                       FileRows(other_domains)[k].projectref = ref
               IN IF RowCount(d) >= 10
                  THEN /\ Refs(FileRows(sanitise_directory_name(d))) = Refs(SelectSeq(tbl, OfD))
                       /\ \A i \in 1..Len(tbl) : OfD(tbl[i]) => ~InOther(tbl[i].projectref)
                  ELSE /\ Refs(FileRows(sanitise_directory_name(d))) # Refs(SelectSeq(tbl, OfD))
                       /\ \A i \in 1..Len(tbl) : OfD(tbl[i]) => InOther(tbl[i].projectref)

\* C18: in other_domains the rows of all below-threshold domains appear in the
\* same relative order as in the input table.
C18_OtherDomainsInInputOrder ==
    ppc = "partitioned"
        => LET Below(row) == row.repodomain # None /\ RowCount(row.repodomain) < 10
           IN Refs(FileRows(other_domains)) = Refs(SelectSeq(tbl, Below))

(***************************************************************************)
(* SpecRequest: github_repo_requests.py main, the GitHub API client.       *)
(* For each row not yet counted main asks the API for the latest commit    *)
(* (get_latest_commit_info) and for the test files, page by page           *)
(* (get_test_file_count); both go through make_github_request.  One step   *)
(* of the model is one invocation of make_github_request (one session.get) *)
(* or the code of a caller after make_github_request has returned.  The    *)
(* API is the environment: each session.get draws its reply from Replies.  *)
(* extract_owner_and_repo_names only shapes the text of the request URL,   *)
(* which no reply of the model depends on, so the rows carry no URL.       *)
(***************************************************************************)
MaxApiRows == 2     \* rows of github_df
MaxPages == 2       \* pages the search API holds for one repository

MAX_ATTEMPTS == 10  \* if attempt_num > 10
HTTP_OK == 200      \* if response.status_code != 200
NOT_COUNTED == -1   \* github_df["testfilecount"] = -1

StatusCodes == {HTTP_OK, 403, 500}

RequestPcs == {"commit_request", "search_request"}

ReturnedPcs == {"commit_returned", "search_returned"}

\* where make_github_request returns to
Returned(p) == IF p = "commit_request" THEN "commit_returned" ELSE "search_returned"

\* what session.get can answer to the request made at position p, page pg
Replies(p, pg) ==
    { [status_code |-> c, json |-> "error", items |-> 0, next |-> FALSE] :
          c \in StatusCodes \ {HTTP_OK} }
    \cup
    IF p = "commit_request"
    THEN { [status_code |-> HTTP_OK, json |-> j, items |-> 0, next |-> FALSE] :
               j \in {"sha", "no_sha", "empty"} }
    ELSE { [status_code |-> HTTP_OK, json |-> "no_items", items |-> 0, next |-> FALSE] }
         \cup
         { [status_code |-> HTTP_OK, json |-> "items", items |-> n, next |-> nx] :
               n \in 0..1, nx \in {b \in BOOLEAN : b => pg < MaxPages} }

time_to_pause_constant(attempt) == 2

\* time_to_pause = attempt_num * 2
time_to_pause(attempt) == attempt * 2

InitRequest ==
    /\ \E n \in 1..MaxApiRows : github_df \in [1..n -> {NOT_COUNTED, 3}]
    /\ github_csv = github_df
    /\ row_index = 1 /\ apc = "main"
    /\ attempt_num = 0 /\ requests = 0 /\ sleeps = <<>> /\ page = 0
    /\ test_files = 0 /\ response = NoResponse
    /\ UrlIdle /\ PrepIdle /\ DrvIdle /\ MetIdle /\ TxtIdle

\* main: for index, row in github_df.iterrows(); a row to count starts
\* get_latest_commit_info, which calls make_github_request(attempt_num=1)
MainLoop ==
    /\ apc = "main"
    /\ IF row_index > Len(github_df)
       THEN /\ apc' = "done"
            /\ UNCHANGED <<row_index, attempt_num, requests, sleeps, response>>
       ELSE IF github_df[row_index] = NOT_COUNTED
       THEN /\ apc' = "commit_request"
            /\ attempt_num' = 1 /\ requests' = 0 /\ sleeps' = <<>>
            /\ response' = NoResponse
            /\ UNCHANGED row_index
       ELSE /\ row_index' = row_index + 1
            /\ UNCHANGED <<apc, attempt_num, requests, sleeps, response>>
    /\ UNCHANGED <<github_df, github_csv, page, test_files, urlVars, prepVars, drvVars, metVars, txtVars>>

\* make_github_request entered with attempt_num > 10: logs and returns None
MaxAttemptsReached ==
    /\ apc \in RequestPcs
    /\ attempt_num > MAX_ATTEMPTS
    /\ response' = NoResponse
    /\ apc' = Returned(apc)
    /\ UNCHANGED <<github_df, github_csv, row_index, attempt_num, requests, sleeps,
                   page, test_files, urlVars, prepVars, drvVars, metVars, txtVars>>

\* make_github_request entered with attempt_num <= 10: one session.get; a
\* status other than 200 sleeps and recurses with attempt_num + 1
SessionGet ==
    /\ apc \in RequestPcs
    /\ ~(attempt_num > MAX_ATTEMPTS)
    /\ \E r \in Replies(apc, page) :
          /\ requests' = requests + 1
          /\ IF r.status_code # HTTP_OK
             THEN /\ sleeps' = Append(sleeps, time_to_pause(attempt_num))
                  /\ attempt_num' = attempt_num + 1
                  /\ UNCHANGED <<apc, response>>
             ELSE /\ response' = r
                  /\ apc' = Returned(apc)
                  /\ UNCHANGED <<sleeps, attempt_num>>
    /\ UNCHANGED <<github_df, github_csv, row_index, page, test_files,
                   urlVars, prepVars, drvVars, metVars, txtVars>>

\* get_latest_commit_info after make_github_request, and main's
\* sha, html_url = get_latest_commit_info(...); then get_test_file_count
\* starts at page 1
CommitReturned ==
    /\ apc = "commit_returned"
    /\ IF response = NoResponse \/ response.json = "no_sha"
       THEN /\ apc' = Raised("main", "TypeError")
            /\ UNCHANGED <<attempt_num, requests, sleeps, page, test_files, response>>
       ELSE IF response.json = "empty"
       THEN /\ apc' = Raised("get_latest_commit_info", "IndexError")
            /\ UNCHANGED <<attempt_num, requests, sleeps, page, test_files, response>>
       ELSE /\ apc' = "search_request"
            /\ page' = 1 /\ test_files' = 0
            /\ attempt_num' = 1 /\ requests' = 0 /\ sleeps' = <<>>
            /\ response' = NoResponse
    /\ UNCHANGED <<github_df, github_csv, row_index, urlVars, prepVars, drvVars, metVars, txtVars>>

\* get_test_file_count after make_github_request: the rest of the body of
\* while more_pages, and main's github_df.at[...] = ..., to_csv
SearchReturned ==
    /\ apc = "search_returned"
    /\ LET got   == response # NoResponse /\ response.json = "items"
           files == IF got THEN test_files + response.items ELSE test_files
           more_pages == ~got \/ response.next
       IN  /\ test_files' = files
           /\ IF more_pages
              THEN /\ page' = IF got THEN page + 1 ELSE page
                   /\ apc' = "search_request"
                   /\ attempt_num' = 1 /\ requests' = 0 /\ sleeps' = <<>>
                   /\ response' = NoResponse
                   /\ UNCHANGED <<github_df, github_csv, row_index>>
              ELSE /\ github_df' = [github_df EXCEPT ![row_index] = files]
                   /\ github_csv' = github_df'
                   /\ row_index' = row_index + 1
                   /\ apc' = "main"
                   /\ UNCHANGED <<page, attempt_num, requests, sleeps, response>>
    /\ UNCHANGED <<urlVars, prepVars, drvVars, metVars, txtVars>>

NextRequest ==
    \/ MainLoop
    \/ MaxAttemptsReached
    \/ SessionGet
    \/ CommitReturned
    \/ SearchReturned

SpecRequest == InitRequest /\ [][NextRequest]_vars

\* main is one sequential process: it takes its next step whenever it has one
SpecRequestLive == SpecRequest /\ WF_vars(NextRequest)

\* C20: one call of make_github_request issues at most 10 HTTP requests; after
\* the k-th non-200 response it sleeps 2*k seconds; it returns the first
\* response with status 200 (no request follows it, none precedes the sleeps
\* it was not the answer to); after the 10th non-200 response it returns no
\* response.
C20_BoundedRetry ==
    /\ requests <= 10
    /\ \A k \in 1..Len(sleeps) : sleeps[k] = 2 * k
    /\ apc \in RequestPcs => requests = Len(sleeps)
    /\ apc \in ReturnedPcs =>
          IF response = NoResponse
          THEN requests = 10 /\ Len(sleeps) = 10
          ELSE response.status_code = 200 /\ requests = Len(sleeps) + 1

\* a call has given up after ten non-200 responses
C20_Witness ==
    /\ apc \in ReturnedPcs
    /\ response = NoResponse
    /\ requests = 10
    /\ sleeps[10] = 20

\* C19: whatever the API answers, get_latest_commit_info and
\* get_test_file_count return, a call that reached the retry cap leaves the
\* row without a result and main goes on with the next row without raising:
\* main reaches the end of the table.
C19_PaginatedCallsGiveUp == <>(apc = "done")

(***************************************************************************)
(* DS/metrics_extraction.py: the metrics collector and the worker pool.    *)
(* The module binds, at import, the names of ModuleNames.  The methods     *)
(* _get_file_hash, _process_test_function, analyse_test_file(self, ...)    *)
(* and analyse_code_file(self, ...) of lines 359-468 are indented under    *)
(* the block of `if __name__ == "__main__":` (line 310), after the line    *)
(* that calls MetricsCollector(); no class statement and no __init__ of a  *)
(* MetricsCollector exist in the repository.                               *)
(***************************************************************************)
MaxFiles == 2       \* paths given to process_files_parallel

ModuleNames ==
    {"parse_args", "read_and_parse_file", "get_parsed_arg", "analyse_test_file",
     "analyse_code_file", "process_files_parallel", "BATCH_SIZE"}

\* file names, as chunks
FileNames == { <<"test_a", ".", "py">>, <<"notes", ".", "txt">> }

\* a path argument is a str or a pathlib.Path
Args == [kind : {"str", "Path"}, name : FileNames]

Missing == "<no such file>"

\* file contents: Python sources with one test, with two tests, and one that
\* does not parse
Contents == {"def test_one(): assert True",
             "def test_one(): assert True\ndef test_two(): assert False",
             "def invalid_syntax:"}

Disks == [FileNames -> Contents \cup {Missing}]

\* hashlib.md5(f.read()).hexdigest()
MD5(content) == <<"md5", content>>

NoHash == <<"md5", Missing>>

Result(cases, complexity) ==
    [num_test_cases |-> cases, num_assertions |-> 0, has_setup |-> FALSE,
     has_teardown |-> FALSE, complexity |-> complexity]

\* the key is not in the dictionary
NoResult == Result(-1, -1)

\* result = {"num_test_cases": 0, ...}
ZeroResult == Result(0, 0)

\* the loop over ast.walk(tree) of analyse_test_file: one test case and one
\* unit of complexity per function named test_*; `assert` statements are not
\* calls of a function named assert, so no assertion is counted
Metrics(content) ==
    CASE content = "def test_one(): assert True" -> Result(1, 1)
      [] content = "def test_one(): assert True\ndef test_two(): assert False"
            -> Result(2, 2)
      [] OTHER -> ZeroResult

EndsWithPy(name) ==
    Len(name) >= 2 /\ name[Len(name) - 1] = "." /\ name[Len(name)] = "py"

\* read_and_parse_file(file_path): "parsed", "None" (not a .py name, no such
\* file, syntax error: logged), or the exception that leaves the function
read_and_parse_file(arg, d) ==
    IF arg.kind = "Path" THEN "AttributeError"
    ELSE IF ~EndsWithPy(arg.name) THEN "None"
    ELSE IF d[arg.name] = Missing THEN "None"
    ELSE IF d[arg.name] = "def invalid_syntax:" THEN "None"
    ELSE "parsed"

\* @lru_cache(maxsize=1000) _get_file_hash(self, file_path): a hit returns the
\* hash computed at the first call with this argument; a miss reads the file
get_file_hash(arg, d, lru) ==
    IF lru[arg] # NoHash
    THEN [raised |-> "none", hash |-> lru[arg], lru |-> lru]
    ELSE IF d[arg.name] = Missing
    THEN [raised |-> "FileNotFoundError", hash |-> NoHash, lru |-> lru]
    ELSE [raised |-> "none", hash |-> MD5(d[arg.name]),
          lru |-> [lru EXCEPT ![arg] = MD5(d[arg.name])]]

\* analyse_test_file(self, file_path), lines 380-422, on a collector whose
\* caches are lru and cache, with the disk d
analyse_test_file(arg, d, lru, cache) ==
    LET h == get_file_hash(arg, d, lru)
        parsed == read_and_parse_file(arg, d)
    IN  IF h.raised # "none"
        THEN [raised |-> h.raised, result |-> NoResult, lru |-> lru, cache |-> cache]
        ELSE IF cache[h.hash] # NoResult
        THEN [raised |-> "none", result |-> cache[h.hash], lru |-> h.lru,
              cache |-> cache]
        ELSE IF parsed = "AttributeError"
        THEN [raised |-> parsed, result |-> NoResult, lru |-> h.lru, cache |-> cache]
        ELSE IF parsed = "None"
        THEN [raised |-> "none", result |-> ZeroResult, lru |-> h.lru,
              cache |-> cache]
        ELSE [raised |-> "none", result |-> Metrics(d[arg.name]), lru |-> h.lru,
              cache |-> [cache EXCEPT ![h.hash] = Metrics(d[arg.name])]]

Hashes == { MD5(c) : c \in Contents }

\* the caches of a collector that has analysed nothing
EmptyLru == [a \in Args |-> NoHash]

EmptyCache == [h \in Hashes |-> NoResult]

(***************************************************************************)
(* SpecParallel: process_files_parallel(file_paths).                       *)
(***************************************************************************)
\* the entry appended for one completed future: each task runs the method on
\* its own unpickled copy of the collector
Entry(arg, d) ==
    LET r == analyse_test_file(arg, d, EmptyLru, EmptyCache)
    IN  IF r.raised # "none"
        THEN [file_path |-> arg.name, error |-> r.raised, result |-> NoResult]
        ELSE [file_path |-> arg.name, error |-> "none", result |-> r.result]

\* the orders in which n futures can complete
Orders(n) == { f \in [1..n -> 1..n] : \A i, j \in 1..n : f[i] = f[j] => i = j }

InitParallel ==
    /\ disk \in Disks
    /\ file_paths \in UNION { [1..n -> Args] : n \in 0..MaxFiles }
    /\ par_results = <<>> /\ mpc = "call"
    /\ hash_lru = <<>> /\ metrics_cache = <<>> /\ returned = NoCall
    /\ UrlIdle /\ PrepIdle /\ DrvIdle /\ ReqIdle /\ TxtIdle

\* process_files_parallel: collector = MetricsCollector() looks the name up in
\* the module; then one future per path, appended as the futures complete
ProcessFilesParallel ==
    /\ mpc = "call"
    /\ IF "MetricsCollector" \notin ModuleNames
       THEN /\ mpc' = Raised("process_files_parallel", "NameError")
            /\ UNCHANGED par_results
       ELSE /\ \E order \in Orders(Len(file_paths)) :
                  par_results' = [i \in 1..Len(file_paths) |->
                                     Entry(file_paths[order[i]], disk)]
            /\ mpc' = "returned"
    /\ UNCHANGED <<disk, file_paths, hash_lru, metrics_cache, returned,
                   urlVars, prepVars, drvVars, reqVars, txtVars>>

NextParallel == ProcessFilesParallel

SpecParallel == InitParallel /\ [][NextParallel]_vars

\* C21: a call of process_files_parallel returns, and what it returns holds
\* exactly one entry per input path; the entry of a path whose analysis raised
\* carries the error, and the entry of every path is the one the analysis of
\* that file alone gives.
C21_OneEntryPerPath ==
    mpc # "call"
        => /\ mpc = "returned"
           /\ Len(par_results) = Len(file_paths)
           /\ \E order \in Orders(Len(file_paths)) :
                 \A i \in 1..Len(file_paths) :
                    par_results[i] = Entry(file_paths[order[i]], disk)

(***************************************************************************)
(* SpecCollector: one collector, files written and analysed in any order.  *)
(***************************************************************************)
InitCollector ==
    /\ disk \in Disks
    /\ hash_lru = EmptyLru
    /\ metrics_cache = EmptyCache
    /\ returned = NoCall
    /\ file_paths = <<>> /\ par_results = <<>> /\ mpc = "collector"
    /\ UrlIdle /\ PrepIdle /\ DrvIdle /\ ReqIdle /\ TxtIdle

\* test_file.write_text(content)
WriteFile ==
    /\ mpc = "collector"
    /\ \E name \in FileNames, content \in Contents :
          /\ disk[name] # content
          /\ disk' = [disk EXCEPT ![name] = content]
    /\ returned' = NoCall
    /\ UNCHANGED <<file_paths, par_results, mpc, hash_lru, metrics_cache,
                   urlVars, prepVars, drvVars, reqVars, txtVars>>

\* collector.analyse_test_file(file_path)
AnalyseTestFile ==
    /\ mpc = "collector"
    /\ \E arg \in Args :
          LET r == analyse_test_file(arg, disk, hash_lru, metrics_cache)
          IN  /\ returned' = [path |-> arg, raised |-> r.raised, result |-> r.result]
              /\ hash_lru' = r.lru
              /\ metrics_cache' = r.cache
    /\ UNCHANGED <<disk, file_paths, par_results, mpc,
                   urlVars, prepVars, drvVars, reqVars, txtVars>>

NextCollector == WriteFile \/ AnalyseTestFile

SpecCollector == InitCollector /\ [][NextCollector]_vars

\* what the analysis of the content gives: the metrics of a source that
\* parses, the zero result of one that does not
ExpectedMetrics(content) == Metrics(content)

\* C22: what the call of analyse_test_file just made on an existing Python
\* file returned is the metrics of the content the file has now, whatever was
\* written and analysed before: never the cached result of an older content.
C22_CacheCoherent ==
    (/\ returned # NoCall
     /\ returned.raised = "none"
     /\ EndsWithPy(returned.path.name)
     /\ disk[returned.path.name] # Missing)
        => returned.result = ExpectedMetrics(disk[returned.path.name])

(***************************************************************************)
(* SpecTsv: initial_data_preparation.py __main__, the reading of the TSV   *)
(* file (lines 427-452).  A line is a sequence of chunks, the tab "\t"     *)
(* and the space among them; the newline that ends a line is left out (the *)
(* strip removes it).                                                      *)
(***************************************************************************)
MaxTsvLines == 3    \* lines of the TSV file

WhiteSpace == {"\t", " "}

\* str.strip(): leading and trailing whitespace removed, tabs included
RECURSIVE StripWhite(_)
StripWhite(line) ==
    IF line = <<>> THEN <<>>
    ELSE IF Head(line) \in WhiteSpace THEN StripWhite(Tail(line))
    ELSE IF line[Len(line)] \in WhiteSpace
    THEN StripWhite(SubSeq(line, 1, Len(line) - 1))
    ELSE line

\* columns = line.strip().split("\t")
TsvColumns(line) == Split(StripWhite(line), "\t")

\* the fields a line of the file can hold, the empty field among them
TsvFields == { <<>>, <<"a">>, <<"b">> }

TsvLines ==
    { Join(cols, "\t") :
        cols \in UNION { [1..n -> TsvFields] : n \in 1..3 } }
    \cup { <<"a", "\t", "b", "\t", "a", "\t", "b">> }

TsvFiles == UNION { [1..n -> TsvLines] : n \in 0..MaxTsvLines }

\* the loop over the lines: the rows accumulated in a_values, b_values and
\* c_values, or "ValueError" at the first line that has neither 3 nor 1 columns
RECURSIVE ReadLines(_, _)
ReadLines(lines, rows) ==
    IF lines = <<>> THEN [raised |-> "none", rows |-> rows]
    ELSE LET columns == TsvColumns(Head(lines))
         IN  IF Len(columns) = 3
             THEN ReadLines(Tail(lines),
                            Append(rows, [projectref |-> columns[1],
                                          nlnetpage |-> columns[2],
                                          repourl |-> columns[3]]))
             ELSE IF Len(columns) = 1
             THEN ReadLines(Tail(lines),
                            Append(rows,
                                   [projectref |-> IF rows # <<>>
                                                   THEN rows[Len(rows)].projectref
                                                   ELSE None,
                                    nlnetpage |-> IF rows # <<>>
                                                  THEN rows[Len(rows)].nlnetpage
                                                  ELSE None,
                                    repourl |-> columns[1]]))
             ELSE [raised |-> "ValueError", rows |-> rows]

InitTsv ==
    /\ tsv_lines \in TsvFiles
    /\ tbl = <<>> /\ ppc = "tsv" /\ partitions = {}
    /\ list_file = <<>> /\ list_buffer = <<>> /\ written = <<>>
    /\ read_repos = <<>> /\ read_data = <<>> /\ lpc = {}
    /\ UrlIdle /\ DrvIdle /\ ReqIdle /\ MetIdle

\* lines 427-452: the file read line by line, then df = pd.DataFrame(...)
ReadTsv ==
    /\ ppc = "tsv"
    /\ LET r == ReadLines(tsv_lines, <<>>)
       IN  IF r.raised # "none"
           THEN ppc' = Raised("read_tsv", r.raised) /\ UNCHANGED tbl
           ELSE ppc' = "read" /\ tbl' = r.rows
    /\ UNCHANGED <<urlVars, drvVars, reqVars, metVars, txtVars, partitions>>

NextTsv == ReadTsv

SpecTsv == InitTsv /\ [][NextTsv]_vars

\* the columns of a line: its fields between the tabs
LineColumns(line) == Split(line, "\t")

\* the nearest 3-column line at or before line i, 0 when there is none
RECURSIVE Nearest3(_, _)
Nearest3(lines, i) ==
    IF i = 0 THEN 0
    ELSE IF Len(LineColumns(lines[i])) = 3 THEN i
    ELSE Nearest3(lines, i - 1)

\* C23: the read yields one row per line in line order: a 3-column line gives
\* its three values, a 1-column line its value as repourl with projectref and
\* nlnetpage of the nearest preceding 3-column line (null when there is
\* none); a line with another number of columns aborts the run with an error.
C23_ForwardFill ==
    ppc # "tsv"
        => IF \A i \in 1..Len(tsv_lines) : Len(LineColumns(tsv_lines[i])) \in {1, 3}
           THEN /\ ppc = "read"
                /\ Len(tbl) = Len(tsv_lines)
                /\ \A i \in 1..Len(tsv_lines) :
                      LET cols == LineColumns(tsv_lines[i])
                          k == Nearest3(tsv_lines, i)
                      IN  IF Len(cols) = 3
                          THEN tbl[i] = [projectref |-> cols[1], nlnetpage |-> cols[2],
                                         repourl |-> cols[3]]
                          ELSE /\ tbl[i].repourl = cols[1]
                               /\ tbl[i].projectref =
                                     IF k = 0 THEN None
                                     ELSE LineColumns(tsv_lines[k])[1]
                               /\ tbl[i].nlnetpage =
                                     IF k = 0 THEN None
                                     ELSE LineColumns(tsv_lines[k])[2]
           ELSE ppc = Raised("read_tsv", "ValueError")

(***************************************************************************)
(* Further claims about the clone driver.                                  *)
(***************************************************************************)
\* one of the four flags of the row is true
AnyFlag(r) ==
    \/ r.duplicate_flag
    \/ r.domain_extraction_flag
    \/ r.incomplete_url_flag
    \/ r.base_repo_url_flag

\* C24: in every run, no step of the processing loop invokes git clone for a
\* row one of whose four flags is true, and none changes the clone_status,
\* testfilecountlocal or last_commit_hash of such a row.
C24_FlaggedRowsUntouched ==
    [][(pc = "loop" /\ pc' = "loop")
          => \A i \in 1..Len(df) :
                AnyFlag(df[i])
                    => /\ i \notin cloned'
                       /\ df'[i].clone_status = df[i].clone_status
                       /\ df'[i].testfilecountlocal = df[i].testfilecountlocal
                       /\ df'[i].last_commit_hash = df[i].last_commit_hash]_vars

\* the loop has gone past a flagged row in a run that cloned another row
C24_Witness ==
    /\ pc = "loop"
    /\ cloned # {}
    /\ \E i \in 1..Len(df) : i < index /\ AnyFlag(df[i])

\* C25: in every progress snapshot the driver has written, a row with
\* testfilecountlocal different from -1 has clone_status "successful", and a
\* row with clone_status "failed" has testfilecountlocal -1.
C25_SnapshotConsistent ==
    snapshot.exists
        => \A i \in 1..Len(snapshot.rows) :
              /\ snapshot.rows[i].testfilecountlocal # -1
                    => snapshot.rows[i].clone_status = "successful"
              /\ snapshot.rows[i].clone_status = "failed"
                    => snapshot.rows[i].testfilecountlocal = -1

\* a snapshot written by a resumed run holds a failed row and a counted row
C25_Witness ==
    /\ snapshot.exists
    /\ runs = 2
    /\ \E i \in 1..Len(snapshot.rows) : snapshot.rows[i].clone_status = "failed"
    /\ \E i \in 1..Len(snapshot.rows) : snapshot.rows[i].testfilecountlocal # -1


\* C26: a row is marked clone_status = "successful" without a call of
\* git clone only when the directory that exists was cloned from the row's
\* own repository URL (clone directories are private to a repository)
C26_CloneDirsPrivate ==
    [][(/\ pc = "loop" /\ pc' = "loop" /\ index <= Len(df) /\ index' = index + 1
        /\ ~IsSkipped(df[index])
        /\ DirExists(CloneDirOf(df[index]))
        /\ df'[index].clone_status = "successful")
          => OriginOf(CloneDirOf(df[index])) = df[index].repourl]_vars

(***************************************************************************)
(* Further claims about the preparation pipeline.                          *)
(***************************************************************************)
\* C27: in the table the pipeline writes (after the trimming and the
\* rewrite of http to https) every row that equals an earlier row in
\* projectref, nlnetpage and repourl has duplicate_flag = TRUE (stated for
\* the rows whose projectref is present)
C27_DuplicateFlagsMatchFinalTable ==
    ppc \in {"explained", "partitioned"} =>
        \A i \in 1..Len(tbl) :
            (\E j \in 1..(i - 1) :
                /\ tbl[i].projectref # NaN
                /\ tbl[j].projectref = tbl[i].projectref
                /\ tbl[j].nlnetpage = tbl[i].nlnetpage
                /\ tbl[j].repourl = tbl[i].repourl)
              => tbl[i].duplicate_flag = TRUE

\* the places of the partition files: <<file name, row number>>
PartitionSlots ==
    UNION { { <<f.name, k>> : k \in 1..Len(f.rows) } : f \in partitions }

\* the places at which the row of that projectref was written
SlotsOf(ref) ==
    { s \in PartitionSlots : FileRows(s[1])[s[2]].projectref = ref }

\* C28: the partition step loses no row: every row of the flagged table, the
\* rows whose domain is missing included, is written to exactly one partition,
\* and the sizes of the partitions sum to the number of rows of the table
C28_PartitionLosesNoRow ==
    ppc = "partitioned"
        => /\ \A i \in 1..Len(tbl) : Cardinality(SlotsOf(tbl[i].projectref)) = 1
           /\ Cardinality(PartitionSlots) = Len(tbl)

(***************************************************************************)
(* SpecList: the test-file list is written block by block, as the clone    *)
(* driver writes it, and then read by read_test_file_paths and by          *)
(* convert_test_file_list_to_dataframe.                                    *)
(***************************************************************************)
MaxBlocks == 2      \* blocks of a test-file list
MaxNames == 2       \* test-file names of a block

\* line.split(": "): the pieces between the occurrences of ": "
RECURSIVE SplitColonSpace(_)
SplitColonSpace(s) ==
    LET IsSep(i) == s[i] = ":" /\ s[i + 1] = " "
    IN IF \E i \in 1..(Len(s) - 1) : IsSep(i)
       THEN LET i == CHOOSE i \in 1..(Len(s) - 1) :
                         IsSep(i) /\ \A j \in 1..(i - 1) : ~IsSep(j)
            IN <<SubSeq(s, 1, i - 1)>> \o SplitColonSpace(SubSeq(s, i + 2, Len(s)))
       ELSE <<s>>

\* line.startswith("Repository URL:")
StartsWithRepositoryUrl(line) ==
    Len(line) >= 2 /\ line[1] = "Repository URL" /\ line[2] = ":"

\* `elif current_repo:` a string is true unless it is empty; None is false
IsTrue(str) == str # None /\ str # <<>>

\* repos[current_repo].append(line) on a defaultdict(list); the dict is the
\* sequence of its <<key, list>> items in the order the keys were inserted
AppendToRepo(repos, current_repo, line) ==
    IF \E n \in 1..Len(repos) : repos[n][1] = current_repo
    THEN [n \in 1..Len(repos) |->
             IF repos[n][1] = current_repo
             THEN <<current_repo, Append(repos[n][2], line)>>
             ELSE repos[n]]
    ELSE Append(repos, <<current_repo, <<line>> >>)

\* merge_test_file_paths.read_test_file_paths, from the line lines[1] on
RECURSIVE read_test_file_paths(_, _, _)
read_test_file_paths(lines, current_repo, repos) ==
    IF lines = <<>> THEN [raised |-> "none", repos |-> repos]
    ELSE LET line == StripWhite(lines[1])
         IN IF StartsWithRepositoryUrl(line)
            THEN IF Len(SplitColonSpace(line)) < 2
                 THEN [raised |-> "IndexError", repos |-> repos]
                 ELSE read_test_file_paths(Tail(lines), SplitColonSpace(line)[2], repos)
            ELSE IF IsTrue(current_repo)
            THEN read_test_file_paths(Tail(lines), current_repo,
                                      AppendToRepo(repos, current_repo, line))
            ELSE read_test_file_paths(Tail(lines), current_repo, repos)

\* extract_test_metrics.convert_test_file_list_to_dataframe, from lines[1] on
RECURSIVE convert_test_file_list_to_dataframe(_, _, _)
convert_test_file_list_to_dataframe(lines, current_repo, data) ==
    IF lines = <<>> THEN [raised |-> "none", data |-> data]
    ELSE LET line == StripWhite(lines[1])
         IN IF StartsWithRepositoryUrl(line)
            THEN IF Len(SplitColonSpace(line)) < 2
                 THEN [raised |-> "IndexError", data |-> data]
                 ELSE convert_test_file_list_to_dataframe(
                          Tail(lines), SplitColonSpace(line)[2], data)
            ELSE IF IsTrue(current_repo)
            THEN convert_test_file_list_to_dataframe(
                     Tail(lines), current_repo, Append(data, <<current_repo, line>>))
            ELSE convert_test_file_list_to_dataframe(Tail(lines), current_repo, data)

\* the repositories and the test-file names of the blocks
ListUrls == { GitHubUrl(<<"a", "/", "b">>), GitHubUrl(<<"c", "/", "d">>) }

ListNames == { <<"b", "/", "test_a", ".", "py">>,
               <<"b", "/", "my", " ", "tests", "/", "x", ".", "py">> }

Blocks == [url : ListUrls, names : UNION { [1..n -> ListNames] : n \in 0..MaxNames }]

InitList ==
    /\ list_file = <<>> /\ list_buffer = <<>> /\ written = <<>>
    /\ read_repos = <<>> /\ read_data = <<>> /\ lpc = {}
    /\ tsv_lines = <<>>
    /\ UrlIdle /\ PrepIdle /\ DrvIdle /\ ReqIdle /\ MetIdle

\* github_repo_request_local lines 364-375: a block is written; the file is
\* closed before it is read
WriteBlock ==
    /\ lpc = {} /\ Len(written) < MaxBlocks
    /\ \E b \in Blocks :
          /\ list_file' = list_file \o ListBlock(b.url, b.names)
          /\ written' = Append(written, b)
    /\ UNCHANGED <<urlVars, prepVars, drvVars, reqVars, metVars,
                   tsv_lines, list_buffer, read_repos, read_data, lpc>>

\* merge_test_file_paths lines 18-28
ReadTestFilePaths ==
    /\ "read_test_file_paths" \notin lpc
    /\ LET r == read_test_file_paths(list_file, None, <<>>)
       IN IF r.raised # "none"
          THEN /\ lpc' = lpc \cup {"read_test_file_paths",
                                   Raised("read_test_file_paths", r.raised)}
               /\ UNCHANGED read_repos
          ELSE /\ lpc' = lpc \cup {"read_test_file_paths"}
               /\ read_repos' = r.repos
    /\ UNCHANGED <<urlVars, prepVars, drvVars, reqVars, metVars,
                   tsv_lines, list_file, list_buffer, written, read_data>>

\* extract_test_metrics lines 15-34
ConvertTestFileList ==
    /\ "convert_test_file_list_to_dataframe" \notin lpc
    /\ LET r == convert_test_file_list_to_dataframe(list_file, None, <<>>)
       IN IF r.raised # "none"
          THEN /\ lpc' = lpc \cup {"convert_test_file_list_to_dataframe",
                                   Raised("convert_test_file_list_to_dataframe", r.raised)}
               /\ UNCHANGED read_data
          ELSE /\ lpc' = lpc \cup {"convert_test_file_list_to_dataframe"}
               /\ read_data' = r.data
    /\ UNCHANGED <<urlVars, prepVars, drvVars, reqVars, metVars,
                   tsv_lines, list_file, list_buffer, written, read_repos>>

NextList ==
    \/ WriteBlock
    \/ ReadTestFilePaths
    \/ ConvertTestFileList

SpecList == InitList /\ [][NextList]_vars

(***************************************************************************)
(* Claims about the test-file list.                                        *)
(***************************************************************************)
\* the number of blocks of that repository URL in the lines of the list
BlockCount(lines, repo_url) ==
    Cardinality({ k \in 1..Len(lines) :
                    lines[k] = <<"Repository URL", ":", " ">> \o repo_url })

\* the number of rows of the table with that repository URL
RowsOf(repo_url) == Cardinality({ j \in 1..Len(df) : df[j].repourl = repo_url })

\* C30: over all runs together, runs that were interrupted and resumed from
\* the progress snapshot included, a table row causes at most one block to be
\* appended to the test-file list
C30_AtMostOneBlockPerRow ==
    \A i \in 1..Len(df) :
        BlockCount(list_file, df[i].repourl) <= RowsOf(df[i].repourl)

\* the list read_test_file_paths holds for that repository, <<>> when it has none
PathsOf(repos, repo_url) ==
    IF \E n \in 1..Len(repos) : repos[n][1] = repo_url
    THEN (CHOOSE e \in { repos[n] : n \in 1..Len(repos) } : e[1] = repo_url)[2]
    ELSE <<>>

\* the <<repository, name>> pairs of a sequence of blocks, in order
RECURSIVE PairsOf(_)
PairsOf(blocks) ==
    IF blocks = <<>> THEN <<>>
    ELSE [k \in 1..Len(blocks[1].names) |-> <<blocks[1].url, blocks[1].names[k]>>]
         \o PairsOf(Tail(blocks))

\* C29: reading the list gives, for every block the driver wrote, exactly
\* the test-file names it wrote for that repository (stated for read_test_file_paths
\* on the repositories with one block) and no other entries, also for a
\* repository without test files
C29_ListRoundTrip ==
    /\ ("read_test_file_paths" \in lpc) =>
          \A n \in 1..Len(written) :
              (\A m \in 1..Len(written) : written[m].url = written[n].url => m = n)
                  => PathsOf(read_repos, written[n].url) = written[n].names
    /\ ("convert_test_file_list_to_dataframe" \in lpc) =>
          read_data = PairsOf(written)
====
